---------------------------- MODULE Spec2Model ----------------------------
(***************************************************************************)
(* Village Recon Tool: the remote-resource resolution, schema              *)
(* introspection, folder provisioning, upload and record-creation          *)
(* pipeline of src/unnamed/part_000 (the component App), as a state        *)
(* machine.  Strings are sequences of one-character strings, so that the   *)
(* source's string operations (toLowerCase, trim, replace, split,          *)
(* JSON.stringify) are computed and not assumed.                           *)
(***************************************************************************)
EXTENDS Integers, Sequences, FiniteSets, TLC

(***************************************************************************)
(* Characters and the string primitives of the source.                     *)
(***************************************************************************)
UpperLetters == <<"A","B","C","D","E","F","G","H","I","J","K","L","M",
                  "N","O","P","Q","R","S","T","U","V","W","X","Y","Z">>
LowerLetters == <<"a","b","c","d","e","f","g","h","i","j","k","l","m",
                  "n","o","p","q","r","s","t","u","v","w","x","y","z">>
DigitChars == <<"0","1","2","3","4","5","6","7","8","9">>

Range(s) == {s[i] : i \in DOMAIN s}

IsUpper(c) == c \in Range(UpperLetters)
IsAlnum(c) == c \in Range(UpperLetters) \cup Range(LowerLetters) \cup Range(DigitChars)
IsSpace(c) == c \in {" ", "\t", "\n"}

LowerChar(c) ==
  IF IsUpper(c)
    THEN LowerLetters[CHOOSE i \in DOMAIN UpperLetters : UpperLetters[i] = c]
    ELSE c

\* String.prototype.toLowerCase
toLowerCase(s) == [i \in DOMAIN s |-> LowerChar(s[i])]

\* String.prototype.trim
RECURSIVE trimStart(_)
trimStart(s) == IF s # <<>> /\ IsSpace(Head(s)) THEN trimStart(Tail(s)) ELSE s
RECURSIVE trimEnd(_)
trimEnd(s) ==
  IF s # <<>> /\ IsSpace(s[Len(s)]) THEN trimEnd(SubSeq(s, 1, Len(s) - 1)) ELSE s
trim(s) == trimEnd(trimStart(s))

\* s.replace(/_/g, " ")
underscoresToSpaces(s) == [i \in DOMAIN s |-> IF s[i] = "_" THEN " " ELSE s[i]]

\* s.replace(/[^a-z0-9]/gi, "")
stripNonAlnum(s) ==
  LET Keep(c) == IsAlnum(c) IN SelectSeq(s, Keep)

\* s.replace(/\s+/g, "")
stripSpaces(s) ==
  LET Keep(c) == ~IsSpace(c) IN SelectSeq(s, Keep)

\* String.prototype.includes
includes(s, sub) ==
  \E i \in 0..(Len(s) - Len(sub)) : SubSeq(s, i + 1, i + Len(sub)) = sub

\* the concatenation of a sequence of strings
RECURSIVE Concat(_)
Concat(ss) == IF ss = <<>> THEN <<>> ELSE Head(ss) \o Concat(Tail(ss))

\* Array.prototype.join
RECURSIVE join(_, _)
join(ss, sep) ==
  IF ss = <<>> THEN <<>>
  ELSE IF Len(ss) = 1 THEN ss[1]
  ELSE ss[1] \o sep \o join(Tail(ss), sep)

\* null / undefined: a value no string equals (strings hold one-character elements)
Null == <<"<null>">>

\* one-element set
Only(S) == CHOOSE x \in S : TRUE

\* toStr(v, fallback = "")
toStr(v) == IF v = Null THEN <<>> ELSE v

\* a map (JS object used as a dictionary) and its update m[k] = v
EmptyMap == [k \in {} |-> k]
Put(m, k, v) == (k :> v) @@ m
\* the names an object literal inherits from Object.prototype that survive
\* lower-casing (toString, valueOf, hasOwnProperty, ... hold a capital)
ObjectPrototypeKeys == {<<"c", "o", "n", "s", "t", "r", "u", "c", "t", "o", "r">>, <<"_", "_", "p", "r", "o", "t", "o", "_", "_">>}
\* what reading an inherited property yields: an object, truthy, no string
Inherited == <<"<inherited>">>
\* m[k]: the own property, else the inherited one, else undefined
Get(m, k) ==
  IF k \in DOMAIN m THEN m[k]
  ELSE IF k \in ObjectPrototypeKeys THEN Inherited
  ELSE Null

(***************************************************************************)
(* Schema introspection: getColumns builds the alias index byLower, the    *)
(* type, choice and metadata maps from the listed columns.  A column is    *)
(* [name, displayName, readOnly, hidden, facets, choices]: facets is the   *)
(* set of type-specific sub-objects the remote populated.                  *)
(***************************************************************************)
\* register(key, internal) of getColumns: the first registration keeps the key;
\* byLower[normalized] is truthy for an own key (its value is a non-empty
\* name) and for a name inherited from Object.prototype
register(byLower, key, internal) ==
  LET normalized == toLowerCase(trim(toStr(key)))
  IN IF normalized = <<>> THEN byLower
     ELSE IF normalized \in DOMAIN byLower \/ normalized \in ObjectPrototypeKeys THEN byLower
     ELSE Put(byLower, normalized, internal)

\* the six register calls made for one column
registerColumn(byLower, internalName, displayName) ==
  LET b1 == register(byLower, internalName, internalName)
      b2 == register(b1, underscoresToSpaces(internalName), internalName)
      b3 == register(b2, stripNonAlnum(internalName), internalName)
  IN IF displayName = <<>> THEN b3
     ELSE LET b4 == register(b3, displayName, internalName)
              b5 == register(b4, stripSpaces(displayName), internalName)
          IN register(b5, stripNonAlnum(displayName), internalName)

\* the if / else-if chain classifying a column by the facet present
typeOfColumn(c) ==
  IF "hyperlinkOrPicture" \in c.facets THEN "hyperlinkOrPicture"
  ELSE IF "text" \in c.facets THEN "text"
  ELSE IF "number" \in c.facets THEN "number"
  ELSE IF "dateTime" \in c.facets THEN "dateTime"
  ELSE IF "boolean" \in c.facets THEN "boolean"
  ELSE IF "choice" \in c.facets THEN "choice"
  ELSE IF "multiChoice" \in c.facets THEN "multiChoice"
  ELSE IF "lookup" \in c.facets THEN "lookup"
  ELSE "unknown"

\* choices.map(toStr.trim).filter(Boolean), then Array.from(new Set(..))
RECURSIVE dedupe(_, _)
dedupe(ss, seen) ==
  IF ss = <<>> THEN <<>>
  ELSE IF Head(ss) \in seen THEN dedupe(Tail(ss), seen)
  ELSE <<Head(ss)>> \o dedupe(Tail(ss), seen \cup {Head(ss)})
cleanChoices(raw) ==
  LET trimmed == [i \in DOMAIN raw |-> trim(toStr(raw[i]))]
      NonEmpty(x) == x # <<>>
  IN dedupe(SelectSeq(trimmed, NonEmpty), {})

EmptySchema ==
  [byLower |-> EmptyMap, typeByName |-> EmptyMap,
   choicesByName |-> EmptyMap, metaByName |-> EmptyMap]

\* one iteration of getColumns' loop over cols.value
addColumn(acc, c) ==
  LET internalName == toStr(c.name)
      t == typeOfColumn(c)
  IN IF internalName = <<>> THEN acc
     ELSE [byLower |-> registerColumn(acc.byLower, internalName, toStr(c.displayName)),
           typeByName |-> Put(acc.typeByName, internalName, t),
           choicesByName |->
             IF t \in {"choice", "multiChoice"}
               THEN Put(acc.choicesByName, internalName, cleanChoices(c.choices))
               ELSE acc.choicesByName,
           metaByName |-> Put(acc.metaByName, internalName,
                              [readOnly |-> c.readOnly, hidden |-> c.hidden])]

\* getColumns, after the columns were fetched
\* (the maps after one column are computed before the next column is taken)
RECURSIVE buildSchema(_, _)
buildSchema(acc, cols) ==
  IF cols = <<>> THEN acc
  ELSE LET rest == {buildSchema(added, Tail(cols)) : added \in {addColumn(acc, Head(cols))}}
       IN CHOOSE schema \in rest : TRUE
getColumns(cols) == buildSchema(EmptySchema, cols)

(***************************************************************************)
(* Field selection.                                                        *)
(***************************************************************************)
\* a faulty variant of chooseField: the read-only test is missing
RECURSIVE chooseFieldIgnoringReadOnly(_, _, _, _)
chooseFieldIgnoringReadOnly(byLower, metaByName, candidates, requireWritable) ==
  IF candidates = <<>> THEN Null
  ELSE LET key == toLowerCase(toStr(Head(candidates)))
           hit == Get(byLower, key)
           meta == IF hit \in DOMAIN metaByName THEN metaByName[hit]
                   ELSE [readOnly |-> FALSE, hidden |-> FALSE]
       IN IF hit = Null \/ hit = <<>> \/ meta.hidden
            THEN chooseFieldIgnoringReadOnly(byLower, metaByName, Tail(candidates), requireWritable)
            ELSE hit

\* a faulty variant of chooseField: a candidate that is present but rejected
\* ends the search
RECURSIVE chooseFieldStoppingAtRejected(_, _, _, _)
chooseFieldStoppingAtRejected(byLower, metaByName, candidates, requireWritable) ==
  IF candidates = <<>> THEN Null
  ELSE LET key == toLowerCase(toStr(Head(candidates)))
           hit == Get(byLower, key)
           meta == IF hit \in DOMAIN metaByName THEN metaByName[hit]
                   ELSE [readOnly |-> FALSE, hidden |-> FALSE]
       IN IF hit = Null \/ hit = <<>>
            THEN chooseFieldStoppingAtRejected(byLower, metaByName, Tail(candidates), requireWritable)
          ELSE IF (requireWritable /\ meta.readOnly) \/ meta.hidden THEN Null
          ELSE hit

\* chooseField(byLower, metaByName, candidates, {requireWritable})
RECURSIVE chooseFieldFrom(_, _, _, _)
chooseFieldFrom(byLower, metaByName, candidates, requireWritable) ==
  IF candidates = <<>> THEN Null
  ELSE LET key == toLowerCase(toStr(Head(candidates)))
           hit == Get(byLower, key)
           meta == IF hit \in DOMAIN metaByName THEN metaByName[hit]
                   ELSE [readOnly |-> FALSE, hidden |-> FALSE]
       IN IF hit = Null \/ hit = <<>>
            THEN chooseFieldFrom(byLower, metaByName, Tail(candidates), requireWritable)
          ELSE IF requireWritable /\ meta.readOnly
            THEN chooseFieldFrom(byLower, metaByName, Tail(candidates), requireWritable)
          ELSE IF meta.hidden
            THEN chooseFieldFrom(byLower, metaByName, Tail(candidates), requireWritable)
          ELSE hit
chooseField(byLower, metaByName, candidates, requireWritable) ==
  chooseFieldFrom(byLower, metaByName, candidates, requireWritable)

(***************************************************************************)
(* Photo value formatting.                                                 *)
(***************************************************************************)
\* a faulty variant of the escaping: nothing is escaped
jsonEscapeCharNone(c) == <<c>>
\* JSON.stringify of a string: quotes, with the quote, the backslash and the
\* control characters escaped
jsonEscapeChar(c) ==
  IF c = "\"" THEN <<"\\", "\"">>
  ELSE IF c = "\\" THEN <<"\\", "\\">>
  ELSE IF c = "\n" THEN <<"\\", "n">>
  ELSE IF c = "\t" THEN <<"\\", "t">>
  ELSE <<c>>
jsonString(s) == <<"\"">> \o Concat([i \in DOMAIN s |-> jsonEscapeChar(s[i])]) \o <<"\"">>
\* JSON.stringify of an array of strings
jsonStringify(urls) ==
  <<"[">> \o join([i \in DOMAIN urls |-> jsonString(urls[i])], <<",">>) \o <<"]">>

\* formatPhotoValue(typeByName, fieldName, urls)
formatPhotoValue(typeByName, fieldName, urls) ==
  IF fieldName \in DOMAIN typeByName /\ typeByName[fieldName] = "hyperlinkOrPicture"
    THEN (IF urls # <<>> /\ urls[1] # <<>> THEN urls[1] ELSE <<>>)
    ELSE jsonStringify(urls)

(***************************************************************************)
(* Small helpers of the source, and the path and time arithmetic.          *)
(***************************************************************************)
\* trimSlashes: p.replace(/^\/+|\/+$/g, "")
RECURSIVE dropLeadingSlashes(_)
dropLeadingSlashes(s) ==
  IF s # <<>> /\ Head(s) = "/" THEN dropLeadingSlashes(Tail(s)) ELSE s
RECURSIVE dropTrailingSlashes(_)
dropTrailingSlashes(s) ==
  IF s # <<>> /\ s[Len(s)] = "/"
    THEN dropTrailingSlashes(SubSeq(s, 1, Len(s) - 1)) ELSE s
trimSlashes(p) == dropTrailingSlashes(dropLeadingSlashes(toStr(p)))

\* s.replace(/\/{2,}/g, "/")
RECURSIVE collapseSlashes(_)
collapseSlashes(s) ==
  IF Len(s) < 2 THEN s
  ELSE IF s[1] = "/" /\ s[2] = "/" THEN collapseSlashes(Tail(s))
  ELSE <<s[1]>> \o collapseSlashes(Tail(s))

\* String.prototype.split on one separator character
RECURSIVE splitFrom(_, _, _)
splitFrom(s, sep, cur) ==
  IF s = <<>> THEN <<cur>>
  ELSE IF Head(s) = sep THEN <<cur>> \o splitFrom(Tail(s), sep, <<>>)
  ELSE splitFrom(Tail(s), sep, Append(cur, Head(s)))
split(s, sep) == splitFrom(s, sep, <<>>)

\* String(n) for a natural number, and padStart(2, "0")
RECURSIVE natToStr(_)
natToStr(n) ==
  IF n < 10 THEN <<DigitChars[n + 1]>>
  ELSE natToStr(n \div 10) \o <<DigitChars[(n % 10) + 1]>>
pad2(n) == IF n < 10 THEN <<"0">> \o natToStr(n) ELSE natToStr(n)

\* isGuid: /^{?[0-9a-fA-F]{8}(-?[0-9a-fA-F]{4}){3}-?[0-9a-fA-F]{12}}?$/
IsHex(c) == c \in Range(DigitChars) \cup {"a","b","c","d","e","f","A","B","C","D","E","F"}
hexRun(s, from, n) ==
  /\ from + n - 1 <= Len(s)
  /\ \A i \in from..(from + n - 1) : IsHex(s[i])
skipChar(s, at, c) == IF at <= Len(s) /\ s[at] = c THEN at + 1 ELSE at
\* a faulty variant of the shape test: nothing is taken for an identifier
isGuidNever(v) == FALSE
\* isGuid(s): the test of the pattern above
isGuid(v) ==
  LET s  == toStr(v)
      p0 == skipChar(s, 1, "{")
      p1 == skipChar(s, p0 + 8, "-")
      p2 == skipChar(s, p1 + 4, "-")
      p3 == skipChar(s, p2 + 4, "-")
      p4 == skipChar(s, p3 + 4, "-")
      p5 == skipChar(s, p4 + 12, "}")
  IN /\ hexRun(s, p0, 8)
     /\ hexRun(s, p1, 4)
     /\ hexRun(s, p2, 4)
     /\ hexRun(s, p3, 4)
     /\ hexRun(s, p4, 12)
     /\ p5 = Len(s) + 1

\* a faulty variant of the endpoint: the path-addressed form at the root too
childrenEndpointPathAddressed(driveId, parentPath) ==
  [form |-> "pathChildren", drive |-> driveId, path |-> trimSlashes(parentPath)]
\* childrenEndpoint(driveId, parentPath): the root-children endpoint for an
\* empty parent, the path-addressed children collection otherwise
childrenEndpoint(driveId, parentPath) ==
  LET clean == trimSlashes(parentPath)
  IN IF clean # <<>>
       THEN [form |-> "pathChildren", drive |-> driveId, path |-> clean]
       ELSE [form |-> "rootChildren", drive |-> driveId, path |-> <<>>]

(***************************************************************************)
(* The ordered path segments ensureFolder walks, and its return value.     *)
(***************************************************************************)
\* combined.split("/") with each segment trimmed and the empty ones skipped
folderSegments(baseFolderPath, stamp) ==
  LET NonEmpty(x) == x # <<>>
  IN Only({Only({Only({SelectSeq([i \in DOMAIN raw |-> trim(raw[i])], NonEmpty) :
                         raw \in {split(combined, "/")}}) :
                   combined \in {collapseSlashes(trimSlashes(joined))}}) :
             joined \in {toStr(baseFolderPath) \o <<"/">> \o natToStr(stamp.year)
                           \o <<"/">> \o pad2(stamp.month)}})
\* `${year}/${month}`
folderSuffix(stamp) == natToStr(stamp.year) \o <<"/">> \o pad2(stamp.month)
\* currentPath = parentPath ? `${parentPath}/${segment}` : segment
childPath(parentPath, segment) ==
  IF parentPath # <<>> THEN parentPath \o <<"/">> \o segment ELSE segment

(***************************************************************************)
(* buildTargetFileName(file, villageValue, stamp).                         *)
(***************************************************************************)
\* lastIndexOf("."), 0 when there is none
lastDot(s) ==
  IF \E i \in DOMAIN s : s[i] = "."
    THEN CHOOSE i \in DOMAIN s : s[i] = "." /\ \A j \in DOMAIN s : s[j] = "." => j <= i
    ELSE 0
\* replace(/[^a-zA-Z0-9]+/g, "-"): each run of other characters becomes one hyphen
RECURSIVE hyphenate(_, _)
hyphenate(s, inRun) ==
  IF s = <<>> THEN <<>>
  ELSE IF IsAlnum(Head(s)) THEN <<Head(s)>> \o hyphenate(Tail(s), FALSE)
  ELSE IF inRun THEN hyphenate(Tail(s), TRUE)
  ELSE <<"-">> \o hyphenate(Tail(s), TRUE)
RECURSIVE stripHyphens(_)
stripHyphens(s) ==
  IF s # <<>> /\ Head(s) = "-" THEN stripHyphens(Tail(s))
  ELSE IF s # <<>> /\ s[Len(s)] = "-" THEN stripHyphens(SubSeq(s, 1, Len(s) - 1))
  ELSE s
SegmentCap == 60
sanitize(segment) ==
  Only({Only({Only({SubSeq(h, 1, IF Len(h) < SegmentCap THEN Len(h) ELSE SegmentCap) :
                      h \in {stripHyphens(hyphenated)}}) :
                hyphenated \in {hyphenate(trimmed, FALSE)}}) :
          trimmed \in {trim(toStr(segment))}})
buildTargetFileName(file, villageValue, stamp) ==
  LET timestamp == natToStr(stamp.year) \o pad2(stamp.month) \o pad2(stamp.day)
                   \o pad2(stamp.hour) \o pad2(stamp.minute) \o pad2(stamp.second)
      NonEmpty(x) == x # <<>>
      named(originalName, dot) ==
        Only({Only({timestamp \o <<"_">>
                      \o (IF parts # <<>> THEN join(parts, <<"_">>) ELSE <<"u","p","l","o","a","d">>)
                      \o (IF ext # <<>> THEN <<".">> \o toLowerCase(ext) ELSE <<>>) :
                      parts \in {SelectSeq(<<sanitize(villageValue), sanitize(base)>>, NonEmpty)}}) :
                base \in {IF dot > 0 THEN SubSeq(originalName, 1, dot - 1) ELSE originalName},
                ext \in {IF dot > 0 THEN SubSeq(originalName, dot + 1, Len(originalName))
                         ELSE <<>>}})
  IN Only({Only({named(originalName, dot) : dot \in {lastDot(originalName)}}) :
             originalName \in {IF file.name = Null THEN <<"p","h","o","t","o">> ELSE file.name}})

(***************************************************************************)
(* State.                                                                  *)
(*   CONFIG          the deployment's configuration values                 *)
(*   account, msalReady, files, form, busy, log                            *)
(*                   the component's state (useState)                      *)
(*   resolved, villageChoices, titleChoices                                *)
(*                   the session cache of resolved identifiers and choices *)
(*   world           what the remote answers to metadata reads             *)
(*   rfolders, ritems, rrecords                                            *)
(*                   the remote drive's folders and items, the list's      *)
(*                   records                                               *)
(*   calls           every network call issued so far, in order            *)
(*   clock           index of the current wall-clock reading in Stamps     *)
(*   readFaults      transient failures of reads of existing folders       *)
(*   sub             the running submit(): its position and locals         *)
(*   fsel            inputs and result of a stand-alone chooseField call   *)
(*   pfmt            inputs and result of a stand-alone formatPhotoValue   *)
(*                   call                                                  *)
(*   alias           a stand-alone run of getColumns' loop, and lookups    *)
(*                   through the alias index it built                      *)
(*   dfmt            input and result of a stand-alone                     *)
(*                   formatDateTimeForSharePoint call                      *)
(*   nfmt            inputs and result of a stand-alone                    *)
(*                   buildTargetFileName call                              *)
(*   prime           the preloadChoices passes in flight, each with its    *)
(*                   position, locals and cancelled flag                   *)
(*   choicesPrimed   the component's primed flag (useState)                *)
(*   mounted         whether the component is mounted                      *)
(*   sessions        how many sessions have begun                          *)
(***************************************************************************)
VARIABLES CONFIG, account, msalReady, files, form, busy, log,
          resolved, villageChoices, titleChoices,
          world, rfolders, ritems, rrecords, calls, clock, readFaults,
          sub, fsel, pfmt, alias, dfmt, nfmt, prime, choicesPrimed, mounted, sessions

vars == <<CONFIG, account, msalReady, files, form, busy, log,
          resolved, villageChoices, titleChoices,
          world, rfolders, ritems, rrecords, calls, clock, readFaults,
          sub, fsel, pfmt, alias, dfmt, nfmt, prime, choicesPrimed, mounted, sessions>>

pureVars == <<fsel, pfmt, alias, dfmt, nfmt>>
sessionVars == <<prime, choicesPrimed, mounted, sessions>>
sessionRest == <<choicesPrimed, mounted, sessions>>

uiVars == <<account, msalReady, files, form>>
cacheVars == <<resolved, villageChoices, titleChoices>>
remoteVars == <<rfolders, ritems, rrecords>>

(***************************************************************************)
(* Bounds of the model.                                                    *)
(***************************************************************************)
\* most files selected for one submission
MaxFiles == 2
\* most transient failures of a read of an existing folder in one behaviour
MaxReadFaults == 1
\* longest candidate list handed to a stand-alone chooseField call
MaxCandidates == 2
\* priming passes started in one behaviour
MaxPasses == 2

(***************************************************************************)
(* Program constants.                                                      *)
(***************************************************************************)
\* uploadOne: file.size <= 3_999_999 takes the direct content write
SmallFileMax == 3999999
\* uploadOne: const chunkSize = 5 * 1024 * 1024
chunkSize == 5 * 1024 * 1024
\* the statuses the chunk loop lists as accepted
AcceptedStatuses == {200, 201, 202}
\* Response.ok: a status in the range 200-299
ResponseOk(status) == status >= 200 /\ status <= 299

\* the candidate names submit hands to chooseField
TitleCandidates == << <<"T","i","t","l","e">> >>
VillageCandidates == << <<"V","i","l","l","a","g","e">> >>
NotesCandidates == << <<"N","o","t","e","s">>, <<"N","o","t","e">>, <<"D","e","s","c","r","i","p","t","i","o","n">> >>
CapturedOnCandidates == << <<"C","a","p","t","u","r","e","d","O","n">>, <<"C","a","p","t","u","r","e","d"," ","O","n">>, <<"C","a","p","t","u","r","e","d","_","O","n">> >>
PhotoCandidates == << <<"P","h","o","t","o","U","r","l">>, <<"P","h","o","t","o","U","r","L">>, <<"P","h","o","t","o"," ","U","R","L">>, <<"P","h","o","t","o","_","U","r","l">> >>
CategoryCandidates == << <<"C","a","t","e","g","o","r","y","O","p","t","i","o","n","s">>, <<"C","a","t","e","g","o","r","y"," ","O","p","t","i","o","n","s">>, <<"C","a","t","e","g","o","r","y">> >>

(***************************************************************************)
(* Network calls.                                                          *)
(***************************************************************************)
BlankCall ==
  [kind |-> "none", endpoint |-> "none", path |-> <<>>, name |-> <<>>,
   file |-> 0, lo |-> 0, hi |-> 0, total |-> 0, status |-> 0, ok |-> TRUE,
   \* for a folder call: whether the folder existed when the call was issued
   existed |-> FALSE]
Call(kind, ok) == [BlankCall EXCEPT !.kind = kind, !.ok = ok]
PathCall(kind, path, file, ok) ==
  [BlankCall EXCEPT !.kind = kind, !.path = path, !.file = file, !.ok = ok]

CallsOfKind(k) == {i \in DOMAIN calls : calls[i].kind = k}
NumCalls(k) == Cardinality(CallsOfKind(k))

(***************************************************************************)
(* The remote drive.  An item is [path, id, size]; its durable URL is      *)
(* derived from its id.                                                    *)
(***************************************************************************)
ItemAt(items, path) ==
  IF \E i \in DOMAIN items : items[i].path = path
    THEN items[CHOOSE i \in DOMAIN items : items[i].path = path]
    ELSE Null
HasItem(items, path) == \E i \in DOMAIN items : items[i].path = path
webUrlOf(item) == <<"u">> \o natToStr(item.id)
\* a direct content write replaces the content of an item at the path, or
\* creates the item
RemotePut(items, path, size) ==
  IF HasItem(items, path)
    THEN [i \in DOMAIN items |->
            IF items[i].path = path THEN [items[i] EXCEPT !.size = size] ELSE items[i]]
    ELSE Append(items, [path |-> path, id |-> Len(items) + 1, size |-> size])
\* a completed upload session (conflictBehavior "rename"): a new item, under a
\* changed name when the path is taken
RECURSIVE freePath(_, _)
freePath(items, path) ==
  IF HasItem(items, path) THEN freePath(items, path \o <<"~">>) ELSE path
RemoteSessionCommit(items, path, size) ==
  Append(items, [path |-> freePath(items, path), id |-> Len(items) + 1, size |-> size])

\* the drive item a response carries: the URL may be missing from it
DriveItem(item, withUrl) ==
  [id |-> item.id, webUrl |-> IF withUrl THEN webUrlOf(item) ELSE Null]

\* what a list query by display name returns
listsNamed(lists, name) ==
  LET Match(l) == l.displayName = name IN SelectSeq(lists, Match)

(***************************************************************************)
(* Inputs: configurations, remote contents, selected files, form values.   *)
(***************************************************************************)
BaseConfig ==
  [spSiteHostname |-> <<"x",".","s","h","a","r","e","p","o","i","n","t",".","c","o","m">>,
   spSitePath |-> <<"/","s","i","t","e","s","/","w">>,
   spListIdOrName |-> <<"R","e","c","o","n">>,
   spLibraryDriveIdOrName |-> <<"D","o","c","u","m","e","n","t","s">>,
   libraryFolderPath |-> <<"P","h","o","t","o","s">>,
   graphBaseUrl |-> <<"h","t","t","p","s",":","/","/","g">>,
   graphVersion |-> <<"v","1",".","0">>,
   redirectUri |-> <<"h","t","t","p","s",":","/","/","a","p","p","/">>]

\* base folder paths: plain, nested, with redundant separators, with padded
\* segments, empty (the library root)
BasePaths == { <<"P","h","o","t","o","s">>, <<"A","/","B">>, <<"/","A","/","/","B","/">>, <<" ","A"," ","/"," ","B">>, <<>> }

Column(name, displayName, facet, readOnly, hidden) ==
  [name |-> name, displayName |-> displayName, facets |-> {facet},
   readOnly |-> readOnly, hidden |-> hidden, choices |-> <<>>]
TitleColumn == Column(<<"T","i","t","l","e">>, <<"T","i","t","l","e">>, "text", FALSE, FALSE)
VillageColumn ==
  [Column(<<"V","i","l","l","a","g","e">>, <<"V","i","l","l","a","g","e">>, "choice", FALSE, FALSE)
     EXCEPT !.choices = << <<"N","o","r","t","h">>, <<" ","S","o","u","t","h"," ">>, <<"N","o","r","t","h">> >>]
NotesColumn == Column(<<"N","o","t","e","s">>, <<"N","o","t","e","s">>, "text", FALSE, FALSE)
CapturedOnColumn == Column(<<"C","a","p","t","u","r","e","d","_","x","0","0","2","0","_","O","n">>, <<"C","a","p","t","u","r","e","d"," ","O","n">>, "dateTime", FALSE, FALSE)
PhotoColumn == Column(<<"P","h","o","t","o","U","r","l">>, <<"P","h","o","t","o"," ","U","R","L">>, "text", FALSE, FALSE)
\* the title column shown under the name "Village", in a list with no other
\* village column
RenamedTitleColumn == [TitleColumn EXCEPT !.displayName = <<"V","i","l","l","a","g","e">>]
IdColumn == Column(<<"I","D">>, <<"I","D">>, "number", TRUE, FALSE)

BaseColumns ==
  <<IdColumn, TitleColumn, VillageColumn, NotesColumn, CapturedOnColumn, PhotoColumn>>

\* column listings the remote may hold: the photo column of link kind, read-only,
\* hidden or absent; the title column hidden, read-only or absent; no village,
\* notes or captured-on column; the title column displayed as "Village"
ColumnListings ==
  { BaseColumns,
    <<IdColumn, TitleColumn, VillageColumn, NotesColumn, CapturedOnColumn,
      [PhotoColumn EXCEPT !.facets = {"hyperlinkOrPicture"}]>>,
    <<IdColumn, TitleColumn, VillageColumn, NotesColumn, CapturedOnColumn,
      [PhotoColumn EXCEPT !.readOnly = TRUE]>>,
    <<IdColumn, TitleColumn, VillageColumn, NotesColumn, CapturedOnColumn,
      [PhotoColumn EXCEPT !.hidden = TRUE]>>,
    <<IdColumn, TitleColumn, VillageColumn, NotesColumn, CapturedOnColumn>>,
    <<IdColumn, [TitleColumn EXCEPT !.hidden = TRUE], VillageColumn, NotesColumn, PhotoColumn>>,
    <<IdColumn, [TitleColumn EXCEPT !.readOnly = TRUE], PhotoColumn>>,
    <<IdColumn, PhotoColumn>>,
    <<IdColumn, TitleColumn, [PhotoColumn EXCEPT !.facets = {}]>>,
    <<IdColumn, RenamedTitleColumn, NotesColumn, CapturedOnColumn, PhotoColumn>> }

BaseWorld ==
  [directSiteId |-> <<"S","1">>,
   candidates |-> << [id |-> <<"S","2">>, webUrl |-> <<"h","t","t","p","s",":","/","/","x",".","s","h","a","r","e","p","o","i","n","t",".","c","o","m","/","s","i","t","e","s","/","w">>,
                      hostname |-> <<"x",".","s","h","a","r","e","p","o","i","n","t",".","c","o","m">>] >>,
   lists |-> << [id |-> <<"L","1">>, displayName |-> <<"R","e","c","o","n">>] >>,
   drives |-> << [id |-> <<"D","1">>, name |-> <<"D","o","c","u","m","e","n","t","s">>, driveType |-> <<"d","o","c","u","m","e","n","t","L","i","b","r","a","r","y">>] >>,
   columns |-> BaseColumns,
   \* the environment: which probes get through, whether a read of an existing
   \* folder may fail transiently, the uploads whose response carries no webUrl
   graphReachable |-> TRUE, spReachable |-> TRUE, flaky |-> FALSE, noUrlFor |-> {},
   \* the call of a priming pass on which the transport fails, "none" when none
   faultAt |-> "none"]

\* file sizes around the small-file threshold and the chunk boundaries
FileSizes == {0, SmallFileMax, SmallFileMax + 1, chunkSize, chunkSize + 1, 2 * chunkSize + 1}
FileNames == << <<"a",".","J","P","G">>, <<"b"," ","c",".","p","n","g">>, <<"d">> >>
File(i, size) == [name |-> FileNames[i], size |-> size, lastModified |-> i]
\* selections of up to MaxFiles files, the i-th named FileNames[i]: one file of
\* each size, and small and large files in turn
Alternating(n, firstSize, secondSize) ==
  [i \in 1..n |-> File(i, IF i % 2 = 1 THEN firstSize ELSE secondSize)]
FileLists ==
  {<<File(1, sz)>> : sz \in FileSizes}
  \cup {Alternating(n, SmallFileMax, SmallFileMax + 1) : n \in 1..MaxFiles}
  \cup {Alternating(n, chunkSize + 1, 0) : n \in 1..MaxFiles}
BaseFiles == Alternating(MaxFiles, 0, SmallFileMax)

BaseForm ==
  [title |-> <<"L","e","a","k">>, village |-> <<"N","o","r","t","h">>, notes |-> <<"w","e","t">>,
   capturedOn |-> <<"2","0","2","5","-","1","2","-","3","1","T","2","3",":","5","9">>]

\* wall-clock readings (local time), across a month and year boundary
Stamps ==
  << [year |-> 2025, month |-> 12, day |-> 31, hour |-> 23, minute |-> 59, second |-> 59],
     [year |-> 2026, month |-> 1, day |-> 1, hour |-> 0, minute |-> 0, second |-> 0] >>

EmptyResolved == [siteId |-> Null, listId |-> Null, driveId |-> Null]
FullResolved == [siteId |-> <<"S","1">>, listId |-> <<"L","1">>, driveId |-> <<"D","1">>]
\* identifiers cached earlier in the session that a lookup would no longer return
OtherResolved == [siteId |-> <<"S","7">>, listId |-> <<"L","7">>, driveId |-> <<"D","7">>]

\* every prefix of a folder path, as the remote names the folders
RECURSIVE prefixPaths(_, _)
prefixPaths(segs, parent) ==
  IF segs = <<>> THEN {}
  ELSE LET p == childPath(parent, Head(segs)) IN {p} \cup prefixPaths(Tail(segs), p)

(***************************************************************************)
(* validateConfig: the warnings about the configuration's shape.           *)
(***************************************************************************)
startsWith(s, pre) == Len(s) >= Len(pre) /\ SubSeq(s, 1, Len(pre)) = pre
validateConfig(cfg) ==
  LET host == toLowerCase(toStr(cfg.spSiteHostname))
      path == toLowerCase(toStr(cfg.spSitePath))
      hostOk == \/ \E tld \in { <<"c","o","m">>, <<"c","n">>, <<"d","e">>, <<"m","i","l">>, <<"u","s">> } :
                     includes(host, <<"s","h","a","r","e","p","o","i","n","t",".">> \o tld)
                \/ includes(host, <<"s","h","a","r","e","p","o","i","n","t","-","d","f",".","c","o","m">>)
      pathOk == startsWith(path, <<"/","s","i","t","e","s","/">>) \/ startsWith(path, <<"/","t","e","a","m","s","/">>)
  IN (IF hostOk THEN {} ELSE {"spSiteHostname"})
     \cup (IF pathOk THEN {} ELSE {"spSitePath"})
     \cup (IF toStr(cfg.libraryFolderPath) = <<>> THEN {"libraryFolderPath"} ELSE {})
     \cup (IF toStr(cfg.graphBaseUrl) = <<>> THEN {"graphBaseUrl"} ELSE {})
     \cup (IF toStr(cfg.graphVersion) = <<>> THEN {"graphVersion"} ELSE {})
     \cup (IF toStr(cfg.redirectUri) = <<>> THEN {"redirectUri"} ELSE {})

\* lastSegment: the last non-empty segment of spSitePath, "" when there is none
lastSegment(cfg) ==
  LET NonEmpty(x) == x # <<>>
      segs == SelectSeq(split(toStr(cfg.spSitePath), "/"), NonEmpty)
  IN IF segs = <<>> THEN <<>> ELSE segs[Len(segs)]

(***************************************************************************)
(* Rendering and the priming effect.  sgraph is a fresh object on every    *)
(* render (useSafeGraph builds one per call) and is a dependency of the    *)
(* effect, so every render runs the effect's cleanup, which cancels the    *)
(* pass in flight, and then the effect, which starts a pass when an        *)
(* account is present and the choices are not primed.  A state update and  *)
(* the render it causes are one step.                                      *)
(***************************************************************************)
\* the component state: an update of any of it renders the component
reactState ==
  <<account, msalReady, files, form, busy, log, resolved, villageChoices,
    titleChoices, choicesPrimed>>

\* the position of a pass: its first await not skipped by a cached identifier
passPc(p) ==
  IF p.siteId = Null THEN "site"
  ELSE IF p.listId = Null THEN "list"
  ELSE IF p.driveId = Null THEN "drive"
  ELSE "columns"
\* preloadChoices() as the effect starts it, closing over the rendered cache
NewPass(res) ==
  LET p == [pc |-> "site", cancelled |-> FALSE, resolved0 |-> res,
            siteId |-> res.siteId, listId |-> res.listId, driveId |-> res.driveId,
            \* the calls the pass issued
            calls |-> <<>>]
  IN [p EXCEPT !.pc = passPc(p)]
\* the effect's cleanup: cancelled = true
cancelAll(passes) == [i \in DOMAIN passes |-> [passes[i] EXCEPT !.cancelled = TRUE]]
\* cleanup, then the effect's guard and body
effectRun(passes, acct, ready, primed, res) ==
  IF acct # "none" /\ ready /\ ~primed
    THEN Append(cancelAll(passes), NewPass(res))
    ELSE cancelAll(passes)
\* the passes after a step that left them as `passes`: a render when the
\* component state changed (forced: an update with a fresh object), the
\* cleanup alone on unmount, nothing once unmounted
Rendered(passes, forced) ==
  /\ prime' = IF mounted' /\ (forced \/ reactState' # reactState)
                THEN effectRun(passes, account', msalReady', choicesPrimed', resolved')
              ELSE IF mounted /\ ~mounted' THEN cancelAll(passes)
              ELSE passes
  /\ Len(prime') <= MaxPasses

(***************************************************************************)
(* submit(): one action per awaited call, each with the synchronous code   *)
(* that follows the call up to the next await.                             *)
(***************************************************************************)
NoNames ==
  [title |-> Null, village |-> Null, notes |-> Null, capturedOn |-> Null,
   photo |-> Null, category |-> Null]
IdleSub ==
  [pc |-> "idle", resolved0 |-> EmptyResolved, files0 |-> <<>>, form0 |-> BaseForm,
   siteId |-> Null, listId |-> Null, driveId |-> Null,
   schema |-> EmptySchema, names |-> NoNames,
   uploadedItems |-> <<>>, fileIdx |-> 0, stamp |-> Stamps[1],
   segs |-> <<>>, segIdx |-> 0, parentPath |-> <<>>, target |-> <<>>,
   start |-> 0, error |-> "none", fields |-> EmptyMap]

\* addLog(msg): n is the file the line is about, 0 when none
Line(tag, n) == <<tag, n>>

\* a faulty variant of the catch block: the failed call is issued once more
FailAndRetry(err, newCalls) ==
  /\ sub' = [sub EXCEPT !.pc = "failed", !.error = err]
  /\ log' = Append(log, Line("Error", 0))
  /\ busy' = FALSE
  /\ calls' = calls \o newCalls \o newCalls
\* a faulty variant of the catch block: the busy flag is left as it was
FailLeavingBusy(err, newCalls) ==
  /\ sub' = [sub EXCEPT !.pc = "failed", !.error = err]
  /\ log' = Append(log, Line("Error", 0))
  /\ UNCHANGED busy
  /\ calls' = calls \o newCalls
\* the catch and finally blocks of submit: log the error, clear busy
Fail(err, newCalls) ==
  /\ sub' = [sub EXCEPT !.pc = "failed", !.error = err]
  /\ log' = Append(log, Line("Error", 0))
  /\ busy' = FALSE
  /\ calls' = calls \o newCalls

\* a faulty variant of the start of submit: a configuration with issues is
\* refused without asking
SubmitStartRefusingUnusual ==
  /\ sub.pc = "idle"
  /\ account # "none"
  /\ files # <<>>
  /\ msalReady
  /\ IF validateConfig(CONFIG) = {}
       THEN /\ busy' = TRUE
            /\ log' = <<Line("Probing network reachability", 0)>>
            /\ sub' = [IdleSub EXCEPT !.pc = "probe", !.resolved0 = resolved,
                                      !.files0 = files, !.form0 = form]
       ELSE UNCHANGED <<busy, log, sub>>
  /\ UNCHANGED <<CONFIG, uiVars, cacheVars, world, remoteVars, calls, clock,
                 readFaults, pureVars, sessionRest>>
  /\ Rendered(prime, FALSE)

\* guards, validateConfig and confirm, setBusy(true), setLog([])
SubmitStart ==
  /\ sub.pc = "idle"
  /\ account # "none"
  /\ files # <<>>
  /\ msalReady
  /\ \E proceed \in (IF validateConfig(CONFIG) = {} THEN {TRUE} ELSE BOOLEAN) :
       IF proceed
         THEN /\ busy' = TRUE
              /\ log' = <<Line("Probing network reachability", 0)>>
              /\ sub' = [IdleSub EXCEPT !.pc = "probe", !.resolved0 = resolved,
                                        !.files0 = files, !.form0 = form]
         ELSE UNCHANGED <<busy, log, sub>>
  /\ UNCHANGED <<CONFIG, uiVars, cacheVars, world, remoteVars, calls, clock,
                 readFaults, pureVars, sessionRest>>
  /\ Rendered(prime, FALSE)

\* a faulty variant of the probing step: an unreachable endpoint ends the
\* submission in the catch block
ProbesAbortOnFailure ==
  /\ sub.pc = "probe"
  /\ LET gOk == world.graphReachable
         hostEmpty == toStr(CONFIG.spSiteHostname) = <<>>
         spOk == ~hostEmpty /\ world.spReachable
         issued == <<Call("probeGraph", gOk)>>
                   \o (IF hostEmpty THEN <<>> ELSE <<Call("probeSharePoint", spOk)>>)
     IN IF gOk /\ spOk
          THEN /\ calls' = calls \o issued
               /\ log' = Append(log, Line("Resolving site, list, library & columns", 0))
               /\ sub' = [sub EXCEPT !.pc = "site"]
               /\ UNCHANGED busy
          ELSE Fail("network", issued)
  /\ UNCHANGED <<CONFIG, uiVars, cacheVars, world, remoteVars, clock,
                 readFaults, pureVars, sessionRest>>
  /\ Rendered(prime, FALSE)

\* Promise.all([probeGraphReachable(), probeSharePointHost(host)]): a failed
\* probe is logged; probeSharePointHost issues no call for an empty host
Probes ==
  /\ sub.pc = "probe"
  /\ LET gOk == world.graphReachable
         hostEmpty == toStr(CONFIG.spSiteHostname) = <<>>
         spOk == ~hostEmpty /\ world.spReachable
     IN /\ calls' = calls \o <<Call("probeGraph", gOk)>>
                      \o (IF hostEmpty THEN <<>> ELSE <<Call("probeSharePoint", spOk)>>)
          /\ log' = log
                    \o (IF gOk THEN <<>> ELSE <<Line("[Probe] Graph unreachable", 0)>>)
                    \o (IF spOk THEN <<>> ELSE <<Line("[Probe] SharePoint host unreachable", 0)>>)
                    \o <<Line("Resolving site, list, library & columns", 0)>>
  /\ sub' = [sub EXCEPT !.pc = "site"]
  /\ UNCHANGED <<CONFIG, uiVars, busy, cacheVars, world, remoteVars, clock,
                 readFaults, pureVars, sessionRest>>
  /\ Rendered(prime, FALSE)

\* resolved.siteId || getSiteId(): the cached identifier, or the direct lookup
SiteDirect ==
  /\ sub.pc = "site"
  /\ \/ /\ sub.resolved0.siteId # Null
        /\ sub' = [sub EXCEPT !.pc = "list", !.siteId = sub.resolved0.siteId]
        /\ UNCHANGED <<calls, log>>
     \/ /\ sub.resolved0.siteId = Null
        /\ toStr(CONFIG.spSiteHostname) # <<>> /\ toStr(CONFIG.spSitePath) # <<>>
        /\ world.directSiteId # Null
        /\ calls' = Append(calls, Call("siteDirect", TRUE))
        /\ sub' = [sub EXCEPT !.pc = "list", !.siteId = world.directSiteId]
        /\ UNCHANGED log
     \/ /\ sub.resolved0.siteId = Null
        /\ calls' = IF toStr(CONFIG.spSiteHostname) = <<>> \/ toStr(CONFIG.spSitePath) = <<>>
                      THEN calls
                      ELSE Append(calls, Call("siteDirect", FALSE))
        /\ log' = log \o <<Line("[Site Resolve] Direct lookup failed", 0),
                           Line("[Site Resolve] Trying discovery", 0)>>
        /\ sub' = [sub EXCEPT !.pc = "siteSearch"]
  /\ UNCHANGED <<CONFIG, uiVars, busy, cacheVars, world, remoteVars, clock,
                 readFaults, pureVars, sessionRest>>
  /\ Rendered(prime, FALSE)

\* a faulty variant of the choice: the first candidate, whatever it matches
chooseSiteFirst(candidates, cfg) == candidates[1]
\* the candidate getSiteId picks from a non-empty search result
chooseSite(candidates, cfg) ==
  LET pathLower == toLowerCase(toStr(cfg.spSitePath))
      hostLower == toLowerCase(toStr(cfg.spSiteHostname))
      PathHit(s) == includes(toLowerCase(toStr(s.webUrl)), pathLower)
      BothHit(s) == PathHit(s) /\ includes(toLowerCase(toStr(s.hostname)), hostLower)
      both == SelectSeq(candidates, BothHit)
      byPath == SelectSeq(candidates, PathHit)
  IN IF both # <<>> THEN both[1] ELSE IF byPath # <<>> THEN byPath[1] ELSE candidates[1]

\* getSiteId's fallback: the search, and the choice among its candidates
SiteSearch ==
  /\ sub.pc = "siteSearch"
  /\ \/ Fail("network", <<Call("siteSearch", FALSE)>>)
     \/ /\ world.candidates = <<>>
        /\ Fail("Could not discover site", <<Call("siteSearch", TRUE)>>)
     \/ /\ world.candidates # <<>>
        /\ calls' = Append(calls, Call("siteSearch", TRUE))
        /\ sub' = [sub EXCEPT !.pc = "list",
                              !.siteId = chooseSite(world.candidates, CONFIG).id]
        /\ log' = Append(log, Line("[Site Resolve] Using discovered site", 0))
        /\ UNCHANGED busy
  /\ UNCHANGED <<CONFIG, uiVars, cacheVars, world, remoteVars, clock, readFaults, pureVars, sessionRest>>
  /\ Rendered(prime, FALSE)

\* resolved.listId || resolveListId(siteId, CONFIG.spListIdOrName)
ResolveList ==
  /\ sub.pc = "list"
  /\ \/ /\ sub.resolved0.listId # Null
        /\ sub' = [sub EXCEPT !.pc = "drive", !.listId = sub.resolved0.listId]
        /\ UNCHANGED <<calls, log, busy>>
     \/ /\ sub.resolved0.listId = Null
        /\ isGuid(CONFIG.spListIdOrName)
        /\ sub' = [sub EXCEPT !.pc = "drive", !.listId = CONFIG.spListIdOrName]
        /\ UNCHANGED <<calls, log, busy>>
     \/ /\ sub.resolved0.listId = Null
        /\ ~isGuid(CONFIG.spListIdOrName)
        /\ LET found == listsNamed(world.lists, toStr(CONFIG.spListIdOrName))
           IN \/ Fail("network", <<Call("listQuery", FALSE)>>)
              \/ /\ found = <<>>
                 /\ Fail("List not found", <<Call("listQuery", TRUE)>>)
              \/ /\ found # <<>>
                 /\ calls' = Append(calls, Call("listQuery", TRUE))
                 /\ sub' = [sub EXCEPT !.pc = "drive", !.listId = found[1].id]
                 /\ UNCHANGED <<log, busy>>
  /\ UNCHANGED <<CONFIG, uiVars, cacheVars, world, remoteVars, clock, readFaults, pureVars, sessionRest>>
  /\ Rendered(prime, FALSE)

\* the characters with codes 0 to 127, in code order (element code + 1);
\* a control character, and the grave accent, is written <cN>
AsciiChars ==
  <<"<c0>", "<c1>", "<c2>", "<c3>", "<c4>", "<c5>", "<c6>", "<c7>", "<c8>", "<c9>", "<c10>", "<c11>", "<c12>", "<c13>", "<c14>", "<c15>",
     "<c16>", "<c17>", "<c18>", "<c19>", "<c20>", "<c21>", "<c22>", "<c23>", "<c24>", "<c25>", "<c26>", "<c27>", "<c28>", "<c29>", "<c30>", "<c31>",
     " ", "!", "\"", "#", "$", "%", "&", "'", "(", ")", "*", "+", ",", "-", ".", "/",
     "0", "1", "2", "3", "4", "5", "6", "7", "8", "9", ":", ";", "<", "=", ">", "?",
     "@", "A", "B", "C", "D", "E", "F", "G", "H", "I", "J", "K", "L", "M", "N", "O",
     "P", "Q", "R", "S", "T", "U", "V", "W", "X", "Y", "Z", "[", "\\", "]", "^", "_",
     "<c96>", "a", "b", "c", "d", "e", "f", "g", "h", "i", "j", "k", "l", "m", "n", "o",
     "p", "q", "r", "s", "t", "u", "v", "w", "x", "y", "z", "{", "|", "}", "~", "<c127>">>
HexDigits == <<"0","1","2","3","4","5","6","7","8","9","a","b","c","d","e","f">>
hexValue(c) == (CHOOSE k \in DOMAIN HexDigits : HexDigits[k] = LowerChar(c)) - 1
\* what decodeURIComponent throws for a malformed escape
URIError == <<"<URIError>">>
\* decodeURIComponent over escapes of one-byte characters: "%" and two
\* hexadecimal digits below 80 give the character with that code; a "%" not
\* followed by two hexadecimal digits, or a byte from 80 up that starts no
\* well-formed multi-byte sequence, throws URIError
RECURSIVE decodeURIComponent(_)
decodeURIComponent(s) ==
  IF s = <<>> THEN <<>>
  ELSE IF Head(s) # "%"
    THEN LET rest == decodeURIComponent(Tail(s))
         IN IF rest = URIError THEN URIError ELSE <<Head(s)>> \o rest
  ELSE IF Len(s) < 3 \/ ~IsHex(s[2]) \/ ~IsHex(s[3]) THEN URIError
  ELSE LET code == 16 * hexValue(s[2]) + hexValue(s[3])
           rest == decodeURIComponent(SubSeq(s, 4, Len(s)))
       IN IF code >= 128 \/ rest = URIError THEN URIError
          ELSE <<AsciiChars[code + 1]>> \o rest

\* the drive resolveDriveId returns from a successful listing, <<>> when none
\* (for a name decodeURIComponent accepts)
findDrive(drives, idOrName) ==
  LET targetName == toLowerCase(decodeURIComponent(toStr(idOrName)))
      ByName(d) == toLowerCase(toStr(d.name)) = targetName
      IsLibrary(d) == toLowerCase(toStr(d.driveType)) = <<"d","o","c","u","m","e","n","t","l","i","b","r","a","r","y">>
      named == SelectSeq(drives, ByName)
      libs == SelectSeq(drives, IsLibrary)
  IN IF named # <<>> THEN <<named[1]>> ELSE IF libs # <<>> THEN <<libs[1]>> ELSE <<>>

\* a faulty variant of the drive step: the cached identifier is not used
ResolveDriveIgnoringCache ==
  /\ sub.pc = "drive"
  /\ LET found == findDrive(world.drives, CONFIG.spLibraryDriveIdOrName)
     IN /\ found # <<>>
        /\ calls' = Append(calls, Call("drives", TRUE))
        /\ sub' = [sub EXCEPT !.pc = "columns", !.driveId = found[1].id]
  /\ UNCHANGED <<CONFIG, uiVars, busy, log, cacheVars, world, remoteVars, clock, readFaults,
                 pureVars, sessionRest>>
  /\ Rendered(prime, FALSE)
\* resolved.driveId || resolveDriveId(siteId, CONFIG.spLibraryDriveIdOrName):
\* the drives are listed before the identifier test
ResolveDrive ==
  /\ sub.pc = "drive"
  /\ \/ /\ sub.resolved0.driveId # Null
        /\ sub' = [sub EXCEPT !.pc = "columns", !.driveId = sub.resolved0.driveId]
        /\ UNCHANGED <<calls, log, busy>>
     \/ /\ sub.resolved0.driveId = Null
        /\ Fail("network", <<Call("drives", FALSE)>>)
     \/ /\ sub.resolved0.driveId = Null
        /\ isGuid(CONFIG.spLibraryDriveIdOrName)
        /\ calls' = Append(calls, Call("drives", TRUE))
        /\ sub' = [sub EXCEPT !.pc = "columns", !.driveId = CONFIG.spLibraryDriveIdOrName]
        /\ UNCHANGED <<log, busy>>
     \/ /\ sub.resolved0.driveId = Null
        /\ ~isGuid(CONFIG.spLibraryDriveIdOrName)
        /\ decodeURIComponent(toStr(CONFIG.spLibraryDriveIdOrName)) = URIError
        /\ Fail("URI malformed", <<Call("drives", TRUE)>>)
     \/ /\ sub.resolved0.driveId = Null
        /\ ~isGuid(CONFIG.spLibraryDriveIdOrName)
        /\ decodeURIComponent(toStr(CONFIG.spLibraryDriveIdOrName)) # URIError
        /\ LET found == findDrive(world.drives, CONFIG.spLibraryDriveIdOrName)
           IN \/ /\ found = <<>>
                 /\ Fail("Drive not found", <<Call("drives", TRUE)>>)
              \/ /\ found # <<>>
                 /\ calls' = Append(calls, Call("drives", TRUE))
                 /\ sub' = [sub EXCEPT !.pc = "columns", !.driveId = found[1].id]
                 /\ UNCHANGED <<log, busy>>
  /\ UNCHANGED <<CONFIG, uiVars, cacheVars, world, remoteVars, clock, readFaults, pureVars, sessionRest>>
  /\ Rendered(prime, FALSE)

\* the names submit resolves for its logical fields
resolveNames(schema) ==
  [title |-> chooseField(schema.byLower, schema.metaByName, TitleCandidates, TRUE),
   village |-> chooseField(schema.byLower, schema.metaByName, VillageCandidates, TRUE),
   notes |-> chooseField(schema.byLower, schema.metaByName, NotesCandidates, TRUE),
   capturedOn |-> chooseField(schema.byLower, schema.metaByName, CapturedOnCandidates, TRUE),
   photo |-> chooseField(schema.byLower, schema.metaByName, PhotoCandidates, TRUE),
   category |-> chooseField(schema.byLower, schema.metaByName, CategoryCandidates, FALSE)]
\* titleName: chooseField(..) || "Title"
titleNameOf(names) == IF names.title = Null THEN <<"T","i","t","l","e">> ELSE names.title
\* the choice list cached for a field: null when the field or its choices are missing
choicesFor(schema, name) ==
  IF name # Null /\ name \in DOMAIN schema.choicesByName /\ schema.choicesByName[name] # <<>>
    THEN schema.choicesByName[name]
    ELSE Null

\* a faulty variant of the photo-column test: the test is missing
photoMissingIgnored(names) == FALSE
\* if (!photoFieldName) throw ...
photoMissing(names) == names.photo = Null

\* getColumns and the code up to the upload loop: field selection, the cache
\* update, and the mandatory photo column
Columns ==
  /\ sub.pc = "columns"
  /\ \/ /\ Fail("network", <<Call("columns", FALSE)>>)
        /\ UNCHANGED cacheVars
     \/ LET schema == getColumns(world.columns)
            names == resolveNames(schema)
        IN /\ calls' = Append(calls, Call("columns", TRUE))
           /\ resolved' = [siteId |-> sub.siteId, listId |-> sub.listId,
                           driveId |-> sub.driveId]
           /\ villageChoices' = choicesFor(schema, names.village)
           /\ titleChoices' = choicesFor(schema, names.category)
           /\ IF photoMissing(names)
                THEN /\ sub' = [sub EXCEPT !.pc = "failed", !.schema = schema,
                                           !.names = names,
                                           !.error = "Could not find a PhotoUrl column"]
                     /\ log' = Append(log, Line("Error", 0))
                     /\ busy' = FALSE
                ELSE /\ sub' = [sub EXCEPT !.pc = "file", !.schema = schema,
                                           !.names = names, !.fileIdx = 1]
                     /\ log' = log \o <<Line("Columns resolved", 0),
                                        Line("Uploading file(s)", Len(sub.files0)),
                                        Line("Uploading", 1)>>
                     /\ UNCHANGED busy
  /\ UNCHANGED <<CONFIG, uiVars, world, remoteVars, clock, readFaults, pureVars, sessionRest>>
  /\ Rendered(prime, FALSE)

\* uploadOne's start: stamp = new Date(), and the segments ensureFolder walks
UploadBegin ==
  /\ sub.pc = "file"
  /\ \E t \in clock..Len(Stamps) :
       /\ clock' = t
       /\ sub' = [sub EXCEPT !.pc = "folderRead", !.stamp = Stamps[t],
                             !.segs = folderSegments(CONFIG.libraryFolderPath, Stamps[t]),
                             !.segIdx = 1, !.parentPath = <<>>]
  /\ UNCHANGED <<CONFIG, uiVars, busy, log, cacheVars, world, remoteVars, calls,
                 readFaults, pureVars, sessionRest>>
  /\ Rendered(prime, FALSE)

\* `${trimSlashes(baseFolderPath)}/${pathSub}/${fileName}`.replace(/^\/+/, "")
targetPath(baseFolderPath, pathSub, fileName) ==
  Only({dropLeadingSlashes(whole) :
          whole \in {trimSlashes(toStr(baseFolderPath)) \o <<"/">> \o pathSub
                       \o <<"/">> \o fileName}})

\* ensureFolder's loop moves to the next segment, or returns to uploadOne,
\* which builds the target path
afterSegment(s, path) ==
  IF s.segIdx < Len(s.segs)
    THEN [s EXCEPT !.pc = "folderRead", !.segIdx = s.segIdx + 1, !.parentPath = path]
    ELSE [s EXCEPT !.pc = "transfer", !.parentPath = path,
                   !.target = targetPath(CONFIG.libraryFolderPath, folderSuffix(s.stamp),
                                         buildTargetFileName(s.files0[s.fileIdx],
                                                             s.form0.village, s.stamp))]

\* a faulty variant of ensureFolder: the folder is created without being read
FolderReadSkipped ==
  /\ sub.pc = "folderRead"
  /\ sub' = [sub EXCEPT !.pc = "folderCreate"]
  /\ UNCHANGED <<CONFIG, uiVars, busy, log, cacheVars, world, remoteVars, calls, clock,
                 readFaults, pureVars, sessionRest>>
  /\ Rendered(prime, FALSE)
\* ensureFolder: the read of the folder at the accumulated path
FolderRead ==
  /\ sub.pc = "folderRead"
  /\ LET path == childPath(sub.parentPath, sub.segs[sub.segIdx])
     IN \/ /\ path \in rfolders
           /\ calls' = Append(calls, [PathCall("folderRead", path, sub.fileIdx, TRUE)
                                        EXCEPT !.existed = TRUE])
           /\ sub' = afterSegment(sub, path)
           /\ UNCHANGED readFaults
        \/ /\ path \notin rfolders
           /\ calls' = Append(calls, PathCall("folderRead", path, sub.fileIdx, FALSE))
           /\ sub' = [sub EXCEPT !.pc = "folderCreate"]
           /\ UNCHANGED readFaults
        \/ /\ path \in rfolders
           /\ world.flaky /\ readFaults < MaxReadFaults
           /\ readFaults' = readFaults + 1
           /\ calls' = Append(calls, [PathCall("folderRead", path, sub.fileIdx, FALSE)
                                        EXCEPT !.existed = TRUE])
           /\ sub' = [sub EXCEPT !.pc = "folderCreate"]
  /\ UNCHANGED <<CONFIG, uiVars, busy, log, cacheVars, world, remoteVars, clock, pureVars, sessionRest>>
  /\ Rendered(prime, FALSE)

\* ensureFolder: the create-folder call against the parent's children collection
FolderCreate ==
  /\ sub.pc = "folderCreate"
  /\ LET segment == sub.segs[sub.segIdx]
         path == childPath(sub.parentPath, segment)
         ep == childrenEndpoint(sub.driveId, sub.parentPath)
         call(ok) == [BlankCall EXCEPT !.kind = "folderCreate", !.endpoint = ep.form,
                                       !.path = ep.path, !.name = segment,
                                       !.file = sub.fileIdx, !.ok = ok,
                                       !.existed = path \in rfolders]
     IN \/ /\ Fail("network", <<call(FALSE)>>)
           /\ UNCHANGED rfolders
        \/ /\ calls' = Append(calls, call(TRUE))
           /\ rfolders' = rfolders \cup {path}
           /\ sub' = afterSegment(sub, path)
           /\ UNCHANGED <<busy, log>>
  /\ UNCHANGED <<CONFIG, uiVars, cacheVars, world, ritems, rrecords, clock,
                 readFaults, pureVars, sessionRest>>
  /\ Rendered(prime, FALSE)

\* a faulty variant of the upload loop: it ends after the first file
afterUploadSkipsRest(s, driveItem) ==
  [s EXCEPT !.pc = "create", !.uploadedItems = Append(s.uploadedItems, driveItem),
            !.start = 0]
\* the upload loop of submit after uploadOne returned driveItem
afterUpload(s, driveItem) ==
  IF s.fileIdx < Len(s.files0)
    THEN [s EXCEPT !.pc = "file", !.uploadedItems = Append(s.uploadedItems, driveItem),
                   !.fileIdx = s.fileIdx + 1, !.start = 0]
    ELSE [s EXCEPT !.pc = "create", !.uploadedItems = Append(s.uploadedItems, driveItem),
                   !.start = 0]
\* a faulty variant of the loop's logging: the next file is announced before
\* the current one is reported
logAfterUploadEarly(s) ==
  (IF s.fileIdx < Len(s.files0) THEN <<Line("Uploading", s.fileIdx + 1)>> ELSE <<>>)
  \o <<Line("Uploaded", s.fileIdx)>>
\* addLog("Uploaded ..."), then the loop's next addLog("Uploading ...")
logAfterUpload(s) ==
  <<Line("Uploaded", s.fileIdx)>>
  \o (IF s.fileIdx < Len(s.files0) THEN <<Line("Uploading", s.fileIdx + 1)>> ELSE <<>>)

\* a faulty variant of the size test: the threshold one byte too low
takesDirectWriteOffByOne(size) == size < SmallFileMax
\* uploadOne: file.size <= 3_999_999
takesDirectWrite(size) == size <= SmallFileMax

\* uploadOne, small file: the single direct content write
PutContent ==
  /\ sub.pc = "transfer"
  /\ takesDirectWrite(sub.files0[sub.fileIdx].size)
  /\ LET size == sub.files0[sub.fileIdx].size
         call(ok) == [PathCall("putContent", sub.target, sub.fileIdx, ok) EXCEPT !.total = size]
     IN \/ /\ Fail("network", <<call(FALSE)>>)
           /\ UNCHANGED ritems
        \/ LET items == RemotePut(ritems, sub.target, size)
               withUrl == sub.fileIdx \notin world.noUrlFor
           IN   /\ ritems' = items
                /\ calls' = Append(calls, call(TRUE))
                /\ sub' = afterUpload(sub, DriveItem(ItemAt(items, sub.target), withUrl))
                /\ log' = log \o logAfterUpload(sub)
                /\ UNCHANGED busy
  /\ UNCHANGED <<CONFIG, uiVars, cacheVars, world, rfolders, rrecords, clock,
                 readFaults, pureVars, sessionRest>>
  /\ Rendered(prime, FALSE)

\* uploadOne, large file: the request for an upload session
CreateUploadSession ==
  /\ sub.pc = "transfer"
  /\ ~takesDirectWrite(sub.files0[sub.fileIdx].size)
  /\ LET call(ok) == PathCall("createUploadSession", sub.target, sub.fileIdx, ok)
     IN \/ Fail("network", <<call(FALSE)>>)
        \/ /\ calls' = Append(calls, call(TRUE))
           /\ sub' = [sub EXCEPT !.pc = "chunk", !.start = 0]
           /\ UNCHANGED <<busy, log>>
  /\ UNCHANGED <<CONFIG, uiVars, cacheVars, world, remoteVars, clock, readFaults, pureVars, sessionRest>>
  /\ Rendered(prime, FALSE)

\* the statuses a chunk response may carry
ChunkStatuses == {201, 202, 204, 416}

\* a faulty variant of the chunk end: not clamped to the file size
chunkEndUnclamped(start, size) == start + chunkSize
\* end = Math.min(start + chunkSize, file.size)
chunkEnd(start, size) == IF start + chunkSize < size THEN start + chunkSize ELSE size

\* the chunk loop throws unless: !res.ok && ![200,201,202].includes(res.status)
chunkRejected(status) == ~ResponseOk(status) /\ status \notin AcceptedStatuses

\* uploadOne, large file: one PUT of the chunk loop.  The remote completes the
\* item when it answers the final byte range with a success status
PutChunk ==
  /\ sub.pc = "chunk"
  /\ sub.start < sub.files0[sub.fileIdx].size
  /\ LET size == sub.files0[sub.fileIdx].size
         end == chunkEnd(sub.start, size)
         call(status, ok) ==
           [PathCall("chunk", sub.target, sub.fileIdx, ok)
              EXCEPT !.lo = sub.start, !.hi = end - 1, !.total = size, !.status = status]
     IN \/ /\ Fail("network", <<call(0, FALSE)>>)
           /\ UNCHANGED ritems
        \/ \E status \in ChunkStatuses :
             IF chunkRejected(status)
               THEN /\ Fail("Upload chunk failed", <<call(status, FALSE)>>)
                    /\ UNCHANGED ritems
               ELSE /\ calls' = Append(calls, call(status, TRUE))
                    /\ ritems' = IF end >= size /\ ResponseOk(status)
                                   THEN RemoteSessionCommit(ritems, sub.target, size)
                                   ELSE ritems
                    /\ sub' = [sub EXCEPT !.start = end,
                                          !.pc = IF end < size THEN "chunk" ELSE "finalGet"]
                    /\ UNCHANGED <<busy, log>>
  /\ UNCHANGED <<CONFIG, uiVars, cacheVars, world, rfolders, rrecords, clock,
                 readFaults, pureVars, sessionRest>>
  /\ Rendered(prime, FALSE)

\* uploadOne, large file: the final metadata read by path
FinalGet ==
  /\ sub.pc = "finalGet"
  /\ LET call(ok) == PathCall("finalGet", sub.target, sub.fileIdx, ok)
     IN \/ Fail("network", <<call(FALSE)>>)
        \/ /\ HasItem(ritems, sub.target)
           /\ LET withUrl == sub.fileIdx \notin world.noUrlFor IN
                /\ calls' = Append(calls, call(TRUE))
                /\ sub' = afterUpload(sub, DriveItem(ItemAt(ritems, sub.target), withUrl))
                /\ log' = log \o logAfterUpload(sub)
                /\ UNCHANGED busy
  /\ UNCHANGED <<CONFIG, uiVars, cacheVars, world, remoteVars, clock, readFaults, pureVars, sessionRest>>
  /\ Rendered(prime, FALSE)

\* uploadedItems.map((i) => i?.webUrl).filter(Boolean)
photoUrlsOf(uploadedItems) ==
  LET urls == [i \in DOMAIN uploadedItems |-> uploadedItems[i].webUrl]
      Truthy(u) == u # Null /\ u # <<>>
  IN SelectSeq(urls, Truthy)

(***************************************************************************)
(* Date and time.  An instant is a count of minutes since 1970-01-01T00:00 *)
(* UTC: the form holds no seconds, the zone's offsets are whole minutes,   *)
(* so every instant the conversion handles falls on a whole minute.        *)
(***************************************************************************)
\* Number(text) of a part of the entered value: digits give their value, the
\* empty text gives 0, any other text is not a number
NaN == -1
\* the value of an expression worked out once: the one element of a
RECURSIVE digitsValue(_, _)
digitsValue(s, acc) ==
  IF s = <<>> THEN acc ELSE digitsValue(Tail(s), (10 * acc) + hexValue(Head(s)))
toNumber(s) ==
  Only({IF \A i \in DOMAIN text : text[i] \in Range(DigitChars)
          THEN digitsValue(text, 0) ELSE NaN : text \in {s}})

\* the day count of a civil date of the Gregorian calendar, and its inverse
daysFromCivil(y, m, d) ==
  Only({LET yy == IF month <= 2 THEN year - 1 ELSE year
            era == yy \div 400
            yoe == yy - (era * 400)
            mp == (month + 9) % 12
            doy == ((153 * mp + 2) \div 5) + day - 1
            doe == (yoe * 365) + (yoe \div 4) - (yoe \div 100) + doy
        IN (era * 146097) + doe - 719468 : year \in {y}, month \in {m}, day \in {d}})
civilFromDays(days) ==
  Only({Only({Only({LET doy == doe - ((365 * yoe) + (yoe \div 4) - (yoe \div 100))
                        mp == (5 * doy + 2) \div 153
                        m == IF mp < 10 THEN mp + 3 ELSE mp - 9
                    IN [year |-> yoe + ((z \div 146097) * 400) + (IF m <= 2 THEN 1 ELSE 0),
                        month |-> m,
                        day |-> doy - ((153 * mp + 2) \div 5) + 1] :
                    yoe \in {(doe - (doe \div 1460) + (doe \div 36524) - (doe \div 146096))
                               \div 365}}) :
              doe \in {z - ((z \div 146097) * 146097)}}) :
        z \in {days + 719468}})
\* Date.UTC(year, month - 1, day, hour, minute), for a month from 1 to 12; a
\* day, hour or minute out of range carries over, as Date.UTC carries it
dateUTC(year, month, day, hour, minute) ==
  ((daysFromCivil(year, month, 1) + day - 1) * 1440) + (hour * 60) + minute
\* the calendar reading of an instant in UTC
partsOf(t) ==
  Only({Only({[year |-> c.year, month |-> c.month, day |-> c.day,
               hour |-> (at % 1440) \div 60, minute |-> at % 60] :
              c \in {civilFromDays(at \div 1440)}}) :
        at \in {t}})

\* the offset of Pacific/Auckland from UTC at an instant, in minutes: NZST
\* (+12:00), and NZDT (+13:00) from the last Sunday of September, 02:00 NZST,
\* to the first Sunday of April, 03:00 NZDT
zoneOffset(t) ==
  LET standard == 12 * 60
      daylight == 13 * 60
      weekday(days) == (days + 4) % 7
      firstSunday(y, m) == 1 + ((7 - weekday(daysFromCivil(y, m, 1))) % 7)
      lastSunday(y, m) == 30 - weekday(daysFromCivil(y, m, 30))
      dstStart(y) == dateUTC(y, 9, lastSunday(y, 9), 2, 0) - standard
      dstEnd(y) == dateUTC(y, 4, firstSunday(y, 4), 3, 0) - daylight
  IN Only({Only({IF at >= dstStart(y0) \/ at < dstEnd(y0) THEN daylight ELSE standard :
                 y0 \in {partsOf(at + standard).year}}) :
           at \in {t}})
\* Intl.DateTimeFormat(.., {timeZone}).formatToParts(date), as numbers
zonedParts(t) == Only({partsOf(at + zoneOffset(at)) : at \in {t}})

\* getTimeZoneOffset(date, timeZone): the zone's reading of the instant,
\* taken as a UTC reading, less the instant
getTimeZoneOffset(date) ==
  Only({Only({dateUTC(p.year, p.month, p.day, p.hour, p.minute) - at :
              p \in {zonedParts(at)}}) :
        at \in {date}})

\* zonedDateTimeStringToUtc(value, timeZone): an instant, or the current time
\* (empty value), or what the device's own parser makes of the value
zonedDateTimeStringToUtc(value) ==
  IF value = <<>> THEN [kind |-> "now", at |-> 0]
  ELSE Only({
    IF Len(segments) # 2 THEN [kind |-> "deviceParsed", at |-> 0]
    ELSE Only({
      IF Len(dateBits) # 3 \/ Len(timeBits) < 2
        THEN [kind |-> "deviceParsed", at |-> 0]
      ELSE Only({
        IF NaN \in {year, month, day, hour, minute}
          THEN [kind |-> "deviceParsed", at |-> 0]
        ELSE Only({Only({[kind |-> "instant", at |-> naiveUtc - offset] :
                         offset \in {getTimeZoneOffset(naiveUtc)}}) :
                   naiveUtc \in {dateUTC(year, month, day, hour, minute)}}) :
        year \in {toNumber(dateBits[1])}, month \in {toNumber(dateBits[2])},
        day \in {toNumber(dateBits[3])}, hour \in {toNumber(timeBits[1])},
        minute \in {toNumber(timeBits[2])}}) :
      dateBits \in {split(segments[1], "-")}, timeBits \in {split(segments[2], ":")}}) :
    segments \in {split(value, "T")}})

\* formatDateTimeForSharePoint(value, timeZone): YYYY-MM-DDTHH:MM:SS+HH:MM
formatDateTimeForSharePoint(value) ==
  Only({
    IF date.kind # "instant" THEN <<"<", date.kind, ">">>
    ELSE Only({
      LET sign == IF offsetMinutesTotal >= 0 THEN <<"+">> ELSE <<"-">>
          absMinutes == IF offsetMinutesTotal >= 0 THEN offsetMinutesTotal
                        ELSE 0 - offsetMinutesTotal
      IN natToStr(parts.year) \o <<"-">> \o pad2(parts.month) \o <<"-">> \o pad2(parts.day)
         \o <<"T">> \o pad2(parts.hour) \o <<":">> \o pad2(parts.minute) \o <<":", "0", "0">>
         \o sign \o pad2(absMinutes \div 60) \o <<":">> \o pad2(absMinutes % 60) :
      parts \in {zonedParts(date.at)}, offsetMinutesTotal \in {getTimeZoneOffset(date.at)}}) :
    date \in {zonedDateTimeStringToUtc(value)}})

\* isoDate: formatDateTimeForSharePoint(capturedOn, NZ_TIME_ZONE)
isoDateOf(capturedOn) == formatDateTimeForSharePoint(capturedOn)

\* formatDateTimeLocal for a wall-clock reading: YYYY-MM-DDTHH:MM
formatDateTimeLocal(stamp) ==
  natToStr(stamp.year) \o <<"-">> \o pad2(stamp.month) \o <<"-">> \o pad2(stamp.day)
  \o <<"T">> \o pad2(stamp.hour) \o <<":">> \o pad2(stamp.minute)

\* a faulty variant of the payload: the photo column takes the first URL only
buildFieldsFirstUrlOnly(s) ==
  LET photoUrls == photoUrlsOf(s.uploadedItems)
      primaryUrl == IF photoUrls # <<>> THEN photoUrls[1] ELSE <<>>
  IN Put(Put(EmptyMap, titleNameOf(s.names), s.form0.title), s.names.photo, primaryUrl)

\* the fields object submit assembles
buildFields(s) ==
  LET photoUrls == photoUrlsOf(s.uploadedItems)
      primaryUrl == IF photoUrls # <<>> THEN photoUrls[1] ELSE <<>>
      extraUrls == IF photoUrls # <<>> THEN Tail(photoUrls) ELSE <<>>
      titleValue == IF s.form0.title # <<>> THEN s.form0.title
                    ELSE IF s.files0 # <<>> /\ toStr(s.files0[1].name) # <<>>
                      THEN s.files0[1].name
                    ELSE <<"P","h","o","t","o"," ","R","e","p","o","r","t">>
      f1 == Put(EmptyMap, titleNameOf(s.names), titleValue)
      f2 == IF s.names.village # Null THEN Put(f1, s.names.village, s.form0.village) ELSE f1
      f3 == IF s.names.notes # Null THEN Put(f2, s.names.notes, s.form0.notes) ELSE f2
      f4 == IF s.names.capturedOn # Null
              THEN Put(f3, s.names.capturedOn, isoDateOf(s.form0.capturedOn)) ELSE f3
  IN Put(f4, s.names.photo,
         formatPhotoValue(s.schema.typeByName, s.names.photo, <<primaryUrl>> \o extraUrls))

\* payload assembly, createListItem, and the reset of the form on success
CreateListItem ==
  /\ sub.pc = "create"
  /\ LET fields == buildFields(sub)
         extraCount == Len(photoUrlsOf(sub.uploadedItems)) - 1
         warning == IF sub.names.notes = Null /\ extraCount > 0
                      THEN <<Line("Warning: Notes field not found", 0)>> ELSE <<>>
         creating == warning \o <<Line("Creating list item", 0)>>
     IN \/ /\ sub' = [sub EXCEPT !.pc = "failed", !.error = "network", !.fields = fields]
           /\ log' = log \o creating \o <<Line("Error", 0)>>
           /\ busy' = FALSE
           /\ calls' = Append(calls, Call("createItem", FALSE))
           /\ UNCHANGED <<rrecords, files, form>>
        \/ /\ calls' = Append(calls, Call("createItem", TRUE))
           /\ rrecords' = Append(rrecords, [site |-> sub.siteId, list |-> sub.listId,
                                            fields |-> fields])
           /\ sub' = [sub EXCEPT !.pc = "done", !.fields = fields]
           /\ log' = log \o creating \o <<Line("List item created", 0), Line("All done", 0)>>
           /\ files' = <<>>
           /\ form' = [title |-> <<>>, village |-> <<>>, notes |-> <<>>,
                       capturedOn |-> formatDateTimeLocal(Stamps[clock])]
           /\ busy' = FALSE
  /\ UNCHANGED <<CONFIG, account, msalReady, cacheVars, world, rfolders, ritems, clock,
                 readFaults, pureVars, sessionRest>>
  /\ Rendered(prime, FALSE)

(***************************************************************************)
(* The submission specification: a signed-in session with files selected,  *)
(* for each scenario one submit() run against the remote.                  *)
(***************************************************************************)
FselOff ==
  [pc |-> "off", byLower |-> EmptyMap, metaByName |-> EmptyMap, candidates |-> <<>>,
   requireWritable |-> FALSE, out |-> Null]
PfmtOff == [pc |-> "off", kind |-> "none", urls |-> <<>>, out |-> Null]
AliasOff == [pc |-> "off", cols |-> <<>>, next |-> 1, schema |-> EmptySchema,
             names |-> <<>>, hits |-> <<>>]
DfmtOff == [pc |-> "off", value |-> <<>>, out |-> <<>>]
NfmtOff == [pc |-> "off", tag |-> <<>>, name |-> <<>>, segments |-> <<>>, out |-> <<>>]

Scenario(config, w, fs, resolved0, folders) ==
  [config |-> config, world |-> w, files |-> fs, resolved |-> resolved0,
   rfolders |-> folders]

\* the folders ensureFolder provisions for a base path at the first clock reading
provisioned(basePath) == prefixPaths(folderSegments(basePath, Stamps[1]), <<>>)

\* every selection of files, over a remote whose responses carry a URL for
\* all, some or none of the uploads
FileScenarios ==
  {Scenario(BaseConfig, [BaseWorld EXCEPT !.noUrlFor = missing], fs, EmptyResolved, {}) :
     fs \in FileLists, missing \in {{}, {1}, 1..MaxFiles}}
\* every column listing
ColumnScenarios ==
  {Scenario(BaseConfig, [BaseWorld EXCEPT !.columns = cols, !.noUrlFor = missing],
            BaseFiles, EmptyResolved, {}) :
     cols \in ColumnListings, missing \in {{}, {2}}}
\* every base path, over a drive holding none, some or all of its folders,
\* with reads that may or may not fail transiently
FolderScenarios ==
  UNION { {Scenario([BaseConfig EXCEPT !.libraryFolderPath = bp],
                    [BaseWorld EXCEPT !.flaky = flaky], BaseFiles, EmptyResolved, folders) :
             folders \in {{}, provisioned(bp)}
                         \cup {{p} : p \in {q \in provisioned(bp) : ~includes(q, <<"/">>)}},
             flaky \in BOOLEAN} :
          bp \in BasePaths }
\* identifiers in the shapes isGuid accepts, and names one character away
\* from them
GuidPlain == <<"0","a","1","b","2","c","3","d","-","0","0","0","0","-","1","1","1","1","-","2","2","2","2","-","0","1","2","3","4","5","6","7","8","9","a","b">>
GuidBraced == <<"{","0","A","1","B","2","C","3","D","0","0","0","0","1","1","1","1","2","2","2","2","D","E","A","D","B","E","E","F","0","0","0","1","}">>
NearGuids ==
  { <<"0","a","1","b","2","c","3","d","-","0","0","0","0","-","1","1","1","1","-","2","2","2","2","-","0","1","2","3","4","5","6","7","8","9","a","g">>,
    <<"0","a","1","b","2","c","3","d","-","0","0","0","0","-","1","1","1","1","-","2","2","2","2","-","0","1","2","3","4","5","6","7","8","9","a">>,
    <<"0","a","1","b","2","c","3","d","-","-","0","0","0","0","-","1","1","1","1","-","2","2","2","2","-","0","1","2","3","4","5","6","7","8","9","a","b">>,
    <<"x","0","a","1","b","2","c","3","d","-","0","0","0","0","-","1","1","1","1","-","2","2","2","2","-","0","1","2","3","4","5","6","7","8","9","a","b">> }
\* a session cache that already holds the identifiers; remotes where a
\* resolution step finds nothing; unreachable probes
ResolutionScenarios ==
  {Scenario(BaseConfig, w, <<File(1, 0)>>, r, {}) :
     w \in {BaseWorld,
            [BaseWorld EXCEPT !.directSiteId = Null],
            [BaseWorld EXCEPT !.directSiteId = Null, !.candidates = <<>>],
            [BaseWorld EXCEPT !.lists = <<>>],
            [BaseWorld EXCEPT !.drives = <<>>],
            [BaseWorld EXCEPT !.graphReachable = FALSE],
            [BaseWorld EXCEPT !.spReachable = FALSE],
            [BaseWorld EXCEPT !.graphReachable = FALSE, !.spReachable = FALSE]},
     r \in {EmptyResolved, FullResolved, OtherResolved}}
  \cup {Scenario([BaseConfig EXCEPT !.spSiteHostname = <<>>], BaseWorld, <<File(1, 0)>>,
                 EmptyResolved, {}),
        Scenario([BaseConfig EXCEPT !.spListIdOrName = GuidPlain,
                                    !.spLibraryDriveIdOrName = GuidBraced],
                 BaseWorld, <<File(1, 0)>>, EmptyResolved, {})}
  \cup {Scenario([BaseConfig EXCEPT !.spListIdOrName = id], BaseWorld, <<File(1, 0)>>,
                 EmptyResolved, {}) : id \in {GuidBraced} \cup NearGuids}
  \cup {Scenario([BaseConfig EXCEPT !.spLibraryDriveIdOrName = id],
                 [BaseWorld EXCEPT !.drives = ds], <<File(1, 0)>>, EmptyResolved, {}) :
          id \in {GuidPlain, GuidBraced}, ds \in {<<>>, BaseWorld.drives}}

\* drive listings: the named drive alone, after another library or in two
\* spellings, absent beside libraries, absent beside no library, no drive at
\* all, and drives whose names hold a percent sign
Drive(id, name, driveType) == [id |-> id, name |-> name, driveType |-> driveType]
DriveListings ==
  { BaseWorld.drives,
    <<Drive(<<"D","2">>, <<"O","t","h","e","r">>, <<"d","o","c","u","m","e","n","t","L","i","b","r","a","r","y">>), Drive(<<"D","1">>, <<"D","O","C","U","M","E","N","T","S">>, <<"d","o","c","u","m","e","n","t","L","i","b","r","a","r","y">>),
      Drive(<<"D","3">>, <<"d","o","c","u","m","e","n","t","s">>, <<"d","o","c","u","m","e","n","t","L","i","b","r","a","r","y">>)>>,
    <<Drive(<<"D","4">>, <<"X">>, <<"p","e","r","s","o","n","a","l">>), Drive(<<"D","2">>, <<"L","i","b","1">>, <<"D","o","c","u","m","e","n","t","L","i","b","r","a","r","y">>),
      Drive(<<"D","3">>, <<"L","i","b","2">>, <<"d","o","c","u","m","e","n","t","L","i","b","r","a","r","y">>)>>,
    <<Drive(<<"D","4">>, <<"X">>, <<"p","e","r","s","o","n","a","l">>)>>,
    <<>>,
    <<Drive(<<"D","2">>, <<"O","t","h","e","r">>, <<"d","o","c","u","m","e","n","t","L","i","b","r","a","r","y">>), Drive(<<"D","5">>, <<"5","0","%">>, <<"d","o","c","u","m","e","n","t","L","i","b","r","a","r","y">>),
      Drive(<<"D","6">>, <<"M","y","%","2","0","D","o","c","s">>, <<"d","o","c","u","m","e","n","t","L","i","b","r","a","r","y">>), Drive(<<"D","7">>, <<"M","y"," ","D","o","c","s">>, <<"d","o","c","u","m","e","n","t","L","i","b","r","a","r","y">>)>> }
DriveNames == { <<"D","o","c","u","m","e","n","t","s">>, <<"d","o","c","u","m","e","n","t","s">>, <<"5","0","%">>, <<"M","y","%","2","0","D","o","c","s">>, <<"M","y"," ","D","o","c","s">> }
DriveScenarios ==
  {Scenario([BaseConfig EXCEPT !.spLibraryDriveIdOrName = n],
            [BaseWorld EXCEPT !.drives = ds], <<File(1, 0)>>, EmptyResolved, {}) :
     n \in DriveNames, ds \in DriveListings}

\* search results: a site matching path and hostname, one matching the path
\* only (in other letter case), one matching the hostname only, one without
\* URL and hostname, in every order and in shorter listings
Site(id, webUrl, hostname) == [id |-> id, webUrl |-> webUrl, hostname |-> hostname]
SiteBoth == Site(<<"S","2">>, <<"h","t","t","p","s",":","/","/","x",".","s","h","a","r","e","p","o","i","n","t",".","c","o","m","/","s","i","t","e","s","/","w">>, <<"x",".","s","h","a","r","e","p","o","i","n","t",".","c","o","m">>)
SitePath == Site(<<"S","3">>, <<"h","t","t","p","s",":","/","/","y",".","s","h","a","r","e","p","o","i","n","t",".","c","o","m","/","S","i","t","e","s","/","W">>, <<"y",".","s","h","a","r","e","p","o","i","n","t",".","c","o","m">>)
SiteHost == Site(<<"S","4">>, <<"h","t","t","p","s",":","/","/","x",".","s","h","a","r","e","p","o","i","n","t",".","c","o","m","/","s","i","t","e","s","/","o","t","h","e","r">>, <<"X",".","S","h","a","r","e","P","o","i","n","t",".","c","o","m">>)
SiteBare == Site(<<"S","5">>, Null, Null)
CandidateListings ==
  { <<a, b, c>> : a, b, c \in {SiteBoth, SitePath, SiteHost, SiteBare} }
  \cup { <<a, b>> : a, b \in {SitePath, SiteHost, SiteBare} }
  \cup { <<a>> : a \in {SiteBoth, SitePath, SiteHost, SiteBare} }
SiteScenarios ==
  {Scenario(BaseConfig, [BaseWorld EXCEPT !.directSiteId = Null, !.candidates = cs],
            <<File(1, 0)>>, EmptyResolved, {}) : cs \in CandidateListings}
  \cup {Scenario([BaseConfig EXCEPT !.spSitePath = <<>>],
                 [BaseWorld EXCEPT !.candidates = <<SitePath, SiteHost, SiteBoth>>],
                 <<File(1, 0)>>, EmptyResolved, {})}

\* selections of two files that fileKey tells apart (by name, size or
\* modification time) and whose names differ not at all, in the letter case
\* of the extension, or in punctuation only
NamedFile(name, size, lastModified) ==
  [name |-> name, size |-> size, lastModified |-> lastModified]
fileKey(file) == <<file.name, file.size, file.lastModified>>
SameNamePairs ==
  { <<NamedFile(<<"a",".","J","P","G">>, 0, 1), NamedFile(<<"a",".","J","P","G">>, SmallFileMax, 2)>>,
    <<NamedFile(<<"a",".","J","P","G">>, 0, 1), NamedFile(<<"a",".","j","p","g">>, 0, 1)>>,
    <<NamedFile(<<"b"," ","c",".","p","n","g">>, SmallFileMax, 1), NamedFile(<<"b","-","c",".","p","n","g">>, 0, 2)>>,
    <<NamedFile(<<"a",".","J","P","G">>, chunkSize + 1, 1), NamedFile(<<"a",".","J","P","G">>, SmallFileMax + 1, 2)>>,
    <<NamedFile(<<"a",".","J","P","G">>, SmallFileMax + 1, 1), NamedFile(<<"a",".","J","P","G">>, 0, 2)>> }
SameNameScenarios ==
  {Scenario(BaseConfig, BaseWorld, fs, FullResolved, provisioned(BaseConfig.libraryFolderPath)) :
     fs \in SameNamePairs}

\* configurations of unusual shape: each setting validateConfig looks at
\* off on its own, and all of them off together
UnusualSettings ==
  { [BaseConfig EXCEPT !.spSiteHostname = <<"f","i","l","e","s",".","e","x","a","m","p","l","e",".","o","r","g">>],
    [BaseConfig EXCEPT !.spSitePath = <<"/","p","e","r","s","o","n","a","l","/","w">>],
    [BaseConfig EXCEPT !.libraryFolderPath = <<>>],
    [BaseConfig EXCEPT !.graphBaseUrl = <<>>],
    [BaseConfig EXCEPT !.graphVersion = <<>>],
    [BaseConfig EXCEPT !.redirectUri = <<>>],
    [BaseConfig EXCEPT !.spSiteHostname = <<"f","i","l","e","s",".","e","x","a","m","p","l","e",".","o","r","g">>,
                       !.spSitePath = <<"/","p","e","r","s","o","n","a","l","/","w">>,
                       !.libraryFolderPath = <<>>, !.graphBaseUrl = <<>>,
                       !.graphVersion = <<>>, !.redirectUri = <<>>] }
ConfigScenarios ==
  {Scenario(cfg, w, <<File(1, 0)>>, EmptyResolved, {}) :
     cfg \in UnusualSettings,
     w \in {BaseWorld, [BaseWorld EXCEPT !.directSiteId = Null]}}

Scenarios ==
  FileScenarios \cup ColumnScenarios \cup FolderScenarios \cup ResolutionScenarios
  \cup DriveScenarios \cup SiteScenarios \cup SameNameScenarios \cup ConfigScenarios

InitFrom(sc) ==
  /\ CONFIG = sc.config
  /\ account = "user"
  /\ msalReady = TRUE
  /\ files = sc.files
  /\ form = BaseForm
  /\ busy = FALSE
  /\ log = <<>>
  /\ resolved = sc.resolved
  /\ villageChoices = Null
  /\ titleChoices = Null
  /\ world = sc.world
  /\ rfolders = sc.rfolders
  /\ ritems = <<>>
  /\ rrecords = <<>>
  /\ calls = <<>>
  /\ clock = 1
  /\ readFaults = 0
  /\ sub = IdleSub
  /\ prime = <<>>
  /\ choicesPrimed = TRUE
  /\ mounted = TRUE
  /\ sessions = 1

Init ==
  \E sc \in Scenarios :
    InitFrom(sc) /\ fsel = FselOff /\ pfmt = PfmtOff /\ alias = AliasOff /\ dfmt = DfmtOff /\ nfmt = NfmtOff

Next ==
  \/ SubmitStart
  \/ Probes
  \/ SiteDirect
  \/ SiteSearch
  \/ ResolveList
  \/ ResolveDrive
  \/ Columns
  \/ UploadBegin
  \/ FolderRead
  \/ FolderCreate
  \/ PutContent
  \/ CreateUploadSession
  \/ PutChunk
  \/ FinalGet
  \/ CreateListItem

Spec == Init /\ [][Next]_vars

(***************************************************************************)
(* The field-selection specification: chooseField applied to every alias   *)
(* index, column metadata and candidate list over small alphabets.         *)
(***************************************************************************)
FieldKeys == { <<"a">>, <<"b">> }
FieldNames == { <<"X">>, <<"Y">> }
FieldCandidates == { <<"a">>, <<"A">>, <<"b">>, <<"c">> }
AliasIndexes == UNION {[D -> FieldNames] : D \in SUBSET FieldKeys}
ColumnMetas ==
  UNION {[D -> [readOnly : BOOLEAN, hidden : BOOLEAN]] : D \in SUBSET FieldNames}
CandidateLists == UNION {[1..n -> FieldCandidates] : n \in 0..MaxCandidates}

InitField ==
  /\ InitFrom(Scenario(BaseConfig, BaseWorld, BaseFiles, EmptyResolved, {}))
  /\ fsel \in [pc : {"ready"}, byLower : AliasIndexes, metaByName : ColumnMetas,
               candidates : CandidateLists, requireWritable : BOOLEAN, out : {Null}]
  /\ pfmt = PfmtOff
  /\ alias = AliasOff
  /\ dfmt = DfmtOff /\ nfmt = NfmtOff


\* one call of chooseField
FieldSelect ==
  /\ fsel.pc = "ready"
  /\ fsel' = [fsel EXCEPT !.pc = "returned",
                          !.out = chooseField(fsel.byLower, fsel.metaByName,
                                              fsel.candidates, fsel.requireWritable)]
  /\ UNCHANGED <<CONFIG, uiVars, busy, log, cacheVars, world, remoteVars, calls, clock,
                 readFaults, sub, pfmt, alias, dfmt, nfmt, sessionVars>>

NextField == FieldSelect

SpecField == InitField /\ [][NextField]_vars

(***************************************************************************)
(* Properties of one submission.                                           *)
(***************************************************************************)
\* the calls of one kind issued for one file, in the order sent
CallsFor(k, f) ==
  LET Is(c) == c.kind = k /\ c.file = f IN SelectSeq(calls, Is)
\* the upload of file f completed before the i-th call
UploadCompletedBefore(f, i) ==
  \E j \in 1..(i - 1) :
    calls[j].file = f /\ calls[j].ok /\ calls[j].kind \in {"putContent", "finalGet"}
\* the record-creation call has been issued with the assembled payload
PayloadSent == NumCalls("createItem") >= 1
\* the calls whose failure submit's callees catch themselves
CaughtKinds == {"probeGraph", "probeSharePoint", "siteDirect", "folderRead"}
\* every kind of call the program issues; none deletes or rolls back
CallKinds ==
  CaughtKinds \cup {"siteSearch", "listQuery", "drives", "columns", "folderCreate",
                    "putContent", "createUploadSession", "chunk", "finalGet",
                    "createItem"}

\* C1: in every run of submit the record-creation call is issued at most once,
\* only after the upload of every selected file has completed successfully,
\* and a run that reports success has issued it exactly once.
C1_RecordCreatedOnceAfterUploads ==
  /\ NumCalls("createItem") <= 1
  /\ \A i \in CallsOfKind("createItem") :
       \A f \in 1..Len(sub.files0) : UploadCompletedBefore(f, i)
  /\ sub.pc = "done" =>
       /\ NumCalls("createItem") = 1
       /\ \A i \in CallsOfKind("createItem") : calls[i].ok
       /\ Len(rrecords) = 1
\* a run over MaxFiles files reports success after creating its record
C1_Witness ==
  /\ sub.pc = "done"
  /\ Len(sub.files0) = MaxFiles
  /\ NumCalls("createItem") = 1
  /\ NumCalls("putContent") + NumCalls("finalGet") = MaxFiles

\* C2: when a step of a submission fails (resolution, introspection, the
\* upload of the k-th file, record creation) no later step is attempted: the
\* failed call is the last call and is issued once, no file after the k-th has
\* a call, no record exists, and from then on no call is issued and the remote
\* is left as it is (nothing uploaded is deleted).
C2_FailureAbortsRest ==
  /\ [](/\ \A i \in DOMAIN calls :
             (~calls[i].ok /\ calls[i].kind \notin CaughtKinds)
               => (i = Len(calls) /\ sub.pc = "failed")
        /\ \A i \in DOMAIN calls : calls[i].kind \in CallKinds
        /\ sub.pc = "failed" =>
             /\ rrecords = <<>>
             /\ \A i \in DOMAIN calls : calls[i].file <= sub.fileIdx
             /\ \A i \in CallsOfKind("createItem") : ~calls[i].ok)
  /\ [][sub.pc = "failed" => UNCHANGED <<calls, remoteVars>>]_vars
\* the upload of the second file fails after the first file was uploaded
C2_Witness ==
  /\ sub.pc = "failed"
  /\ sub.fileIdx = 2
  /\ Len(sub.files0) >= 2
  /\ Len(ritems) = 1
  /\ ~calls[Len(calls)].ok
  /\ calls[Len(calls)].file = 2

\* the folder a create-folder call creates
createdPath(c) == childPath(c.path, c.name)
\* what C3 states of the create-folder calls: each creates a segment that was
\* missing, an ensureFolder call creates no segment twice, and a later
\* ensureFolder call creates no segment an earlier one has walked
CreatesOnlyMissingOnce ==
  \A i \in CallsOfKind("folderCreate") :
    /\ ~calls[i].existed
    /\ \A j \in 1..(i - 1) :
         (calls[j].kind = "folderCreate" /\ calls[j].file = calls[i].file)
           => createdPath(calls[j]) # createdPath(calls[i])
    /\ \A j \in 1..(i - 1) :
         (calls[j].kind = "folderRead" /\ calls[j].file < calls[i].file)
           => calls[j].path # createdPath(calls[i])

ceilDiv(a, b) == (a + b - 1) \div b
\* the chunk loop for file f has run to its end
ChunkLoopOver(f) ==
  \/ sub.fileIdx = f /\ sub.pc = "finalGet"
  \/ CallsFor("finalGet", f) # <<>>

\* C4: a chunked upload of a file of size S with chunk size C in which every
\* chunk is accepted issues exactly ceil(S/C) PUT calls whose byte ranges, in
\* the order sent, partition [0, S): the first starts at 0, each next starts
\* where the previous ended, the last ends at S-1.
C4_ChunkRangesPartitionFile ==
  \A f \in 1..Len(sub.files0) :
    LET cs == CallsFor("chunk", f)
        S == sub.files0[f].size
    IN (cs # <<>> /\ \A i \in DOMAIN cs : cs[i].ok) =>
         /\ cs[1].lo = 0
         /\ \A i \in 2..Len(cs) : cs[i].lo = cs[i - 1].hi + 1
         /\ \A i \in DOMAIN cs :
              /\ cs[i].lo <= cs[i].hi
              /\ cs[i].hi - cs[i].lo + 1 <= chunkSize
              /\ cs[i].hi <= S - 1
              /\ cs[i].total = S
         /\ Len(cs) <= ceilDiv(S, chunkSize)
         /\ ChunkLoopOver(f) =>
              /\ Len(cs) = ceilDiv(S, chunkSize)
              /\ cs[Len(cs)].hi = S - 1
\* a file of two chunks and one byte has been sent in three accepted chunks
C4_Witness ==
  \E f \in 1..Len(sub.files0) :
    /\ sub.files0[f].size = 2 * chunkSize + 1
    /\ ChunkLoopOver(f)
    /\ Len(CallsFor("chunk", f)) = 3
    /\ \A i \in 1..3 : CallsFor("chunk", f)[i].ok

\* C5 as stated: a chunk response with a status other than 200, 201 or 202
\* aborts the upload and no further chunk is sent; the cursor advances only
\* after acceptance, and no byte range is sent twice.
C5_OtherStatusAborts ==
  /\ \A i \in CallsOfKind("chunk") :
       calls[i].status \notin AcceptedStatuses
         => (~calls[i].ok /\ i = Len(calls) /\ sub.pc = "failed")
  /\ \A i, j \in CallsOfKind("chunk") :
       (i # j /\ calls[i].file = calls[j].file) => calls[i].lo # calls[j].lo

\* C6: uploadOne takes the direct content write for every file of at most
\* 3,999,999 bytes and the chunked session for every file of 4,000,000 bytes
\* or more, and exactly one of the two per file.
C6_TransferPathBySize ==
  \A f \in 1..Len(sub.files0) :
    LET S == sub.files0[f].size
        direct == CallsFor("putContent", f) # <<>>
        session == \/ CallsFor("createUploadSession", f) # <<>>
                   \/ CallsFor("chunk", f) # <<>>
                   \/ CallsFor("finalGet", f) # <<>>
    IN /\ ~(direct /\ session)
       /\ direct => S <= 3999999
       /\ session => S >= 4000000
       /\ Len(CallsFor("putContent", f)) <= 1
       /\ Len(CallsFor("createUploadSession", f)) <= 1
       /\ (f < sub.fileIdx \/ sub.pc \in {"create", "done"}) => (direct \/ session)
\* a file of 3,999,999 bytes went by the direct write and one of 4,000,000
\* bytes by a session
C6_Witness ==
  /\ sub.pc = "done"
  /\ \E f, g \in 1..Len(sub.files0) :
       /\ sub.files0[f].size = 3999999 /\ CallsFor("putContent", f) # <<>>
       /\ sub.files0[g].size = 4000000 /\ CallsFor("createUploadSession", g) # <<>>

\* C7: for every alias index, column metadata and candidate list, chooseField
\* called with requireWritable never returns the internal name of a column
\* flagged read-only or hidden.
C7_WritableSelectionUsable ==
  (/\ fsel.pc = "returned"
   /\ fsel.requireWritable
   /\ fsel.out # Null
   /\ fsel.out \in DOMAIN fsel.metaByName)
    => (~fsel.metaByName[fsel.out].readOnly /\ ~fsel.metaByName[fsel.out].hidden)
\* chooseField passed over a read-only column and returned a later candidate's
C7_Witness ==
  /\ fsel.pc = "returned"
  /\ fsel.requireWritable
  /\ Len(fsel.candidates) = 2
  /\ fsel.out # Null
  /\ fsel.out \in DOMAIN fsel.metaByName
  /\ LET passed == Get(fsel.byLower, toLowerCase(fsel.candidates[1]))
     IN /\ passed # Null
        /\ passed \in DOMAIN fsel.metaByName
        /\ fsel.metaByName[passed].readOnly
        /\ passed # fsel.out

\* C8 as stated: every key of the payload sent is the internal name of a
\* column of the introspected schema that is neither hidden nor read-only.
C8_PayloadKeysConfirmed ==
  PayloadSent =>
    \A k \in DOMAIN sub.fields :
      /\ k \in DOMAIN sub.schema.metaByName
      /\ ~sub.schema.metaByName[k].hidden
      /\ ~sub.schema.metaByName[k].readOnly

\* C9: when field selection finds no writable, non-hidden photo column, submit
\* fails with the error naming the column and issues no folder, upload or
\* record-creation call.
C9_MissingPhotoColumnStopsSubmit ==
  (/\ \E i \in CallsOfKind("columns") : calls[i].ok
   /\ sub.names.photo = Null)
    => /\ sub.pc = "failed"
       /\ sub.error = "Could not find a PhotoUrl column"
       /\ \A i \in DOMAIN calls :
            calls[i].kind \notin {"folderRead", "folderCreate", "putContent",
                                  "createUploadSession", "chunk", "finalGet",
                                  "createItem"}
       /\ ritems = <<>> /\ rrecords = <<>>
\* the list has a photo column, but a read-only one, and submit has failed
C9_Witness ==
  /\ sub.pc = "failed"
  /\ sub.error = "Could not find a PhotoUrl column"
  /\ \E i \in DOMAIN world.columns :
       world.columns[i].name = <<"P","h","o","t","o","U","r","l">> /\ world.columns[i].readOnly

\* the webUrl of each upload's response, in file-selection order
uploadUrls == [i \in DOMAIN sub.uploadedItems |-> sub.uploadedItems[i].webUrl]
\* the JSON text of a list of strings that need no escaping
quotedList(urls) ==
  <<"[">> \o join([i \in DOMAIN urls |-> <<"\"">> \o urls[i] \o <<"\"">>], <<",">>) \o <<"]">>
photoKindIsLink ==
  /\ sub.names.photo \in DOMAIN sub.schema.typeByName
  /\ sub.schema.typeByName[sub.names.photo] = "hyperlinkOrPicture"

MaxUrls == 2
\* texts with and without the characters JSON escapes or gives a meaning to
UrlTexts ==
  { <<>>, <<"u">>, <<"a",",","b">>, <<"\"">>, <<"\\">>, <<"\\","\"">>, <<"]">>, <<"[","\"","u","\"","]">>, <<"u","\"","v","\\">> }
UrlLists == UNION {[1..n -> UrlTexts] : n \in 0..MaxUrls}
PhotoKinds == {"hyperlinkOrPicture", "text", "none"}
\* the typeByName map of a list whose photo column P has the kind
typeByNameOf(kind) == IF kind = "none" THEN EmptyMap ELSE Put(EmptyMap, <<"P">>, kind)

InitPhoto ==
  /\ InitFrom(Scenario(BaseConfig, BaseWorld, BaseFiles, EmptyResolved, {}))
  /\ fsel = FselOff
  /\ alias = AliasOff
  /\ dfmt = DfmtOff /\ nfmt = NfmtOff
  /\ pfmt \in [pc : {"ready"}, kind : PhotoKinds, urls : UrlLists, out : {Null}]

\* one call of formatPhotoValue
PhotoFormat ==
  /\ pfmt.pc = "ready"
  /\ pfmt' = [pfmt EXCEPT !.pc = "returned",
                          !.out = formatPhotoValue(typeByNameOf(pfmt.kind), <<"P">>, pfmt.urls)]
  /\ UNCHANGED <<CONFIG, uiVars, busy, log, cacheVars, world, remoteVars, calls, clock,
                 readFaults, sub, fsel, alias, dfmt, nfmt, sessionVars>>

NextPhoto == PhotoFormat

SpecPhoto == InitPhoto /\ [][NextPhoto]_vars

\* what a JSON parser makes of the text of an array of strings; ParseError
\* for any other text
ParseError == << <<"<","e","r","r","o","r",">">> >>
RECURSIVE jsonParseFrom(_, _, _, _, _)
jsonParseFrom(s, i, mode, cur, acc) ==
  IF i > Len(s) THEN (IF mode = "end" THEN acc ELSE ParseError)
  ELSE LET c == s[i] IN
    CASE mode = "open" ->
           IF c = "[" THEN jsonParseFrom(s, i + 1, "first", cur, acc) ELSE ParseError
      [] mode = "first" ->
           IF c = "]" THEN jsonParseFrom(s, i + 1, "end", cur, acc)
           ELSE IF c = "\"" THEN jsonParseFrom(s, i + 1, "string", <<>>, acc)
           ELSE ParseError
      [] mode = "value" ->
           IF c = "\"" THEN jsonParseFrom(s, i + 1, "string", <<>>, acc) ELSE ParseError
      [] mode = "string" ->
           IF c = "\"" THEN jsonParseFrom(s, i + 1, "after", <<>>, Append(acc, cur))
           ELSE IF c = "\\" THEN jsonParseFrom(s, i + 1, "escape", cur, acc)
           ELSE jsonParseFrom(s, i + 1, "string", Append(cur, c), acc)
      [] mode = "escape" ->
           IF c \in {"\"", "\\"} THEN jsonParseFrom(s, i + 1, "string", Append(cur, c), acc)
           ELSE IF c = "n" THEN jsonParseFrom(s, i + 1, "string", Append(cur, "\n"), acc)
           ELSE IF c = "t" THEN jsonParseFrom(s, i + 1, "string", Append(cur, "\t"), acc)
           ELSE ParseError
      [] mode = "after" ->
           IF c = "," THEN jsonParseFrom(s, i + 1, "value", cur, acc)
           ELSE IF c = "]" THEN jsonParseFrom(s, i + 1, "end", cur, acc)
           ELSE ParseError
      [] OTHER -> ParseError
jsonParse(s) == jsonParseFrom(s, 1, "open", <<>>, <<>>)

\* C11: for every ordered list of URLs formatPhotoValue returns only the
\* first URL (the empty text when the list is empty) for a column of the
\* single link kind, and for any other kind a JSON array text that parses
\* back to the list: same length, same elements, same order.
C11_PhotoValueRoundTrip ==
  pfmt.pc = "returned" =>
    IF pfmt.kind = "hyperlinkOrPicture"
      THEN pfmt.out = (IF pfmt.urls # <<>> THEN pfmt.urls[1] ELSE <<>>)
      ELSE jsonParse(pfmt.out) = pfmt.urls
\* a list of MaxUrls texts, one holding a quote and a backslash, came back
\* from the JSON text written for a text column
C11_Witness ==
  /\ pfmt.pc = "returned"
  /\ pfmt.kind = "text"
  /\ Len(pfmt.urls) = MaxUrls
  /\ pfmt.urls[1] = <<"u","\"","v","\\">>
  /\ pfmt.urls[MaxUrls] = <<"a",",","b">>
  /\ jsonParse(pfmt.out) = pfmt.urls

(***************************************************************************)
(* Order of the uploads of one submission.                                 *)
(***************************************************************************)
\* the calls uploadOne issues for a file
UploadKinds ==
  {"folderRead", "folderCreate", "putContent", "createUploadSession", "chunk", "finalGet"}
\* the positions of the log lines with one tag about file n
LinesOf(tag, n) == {i \in DOMAIN log : log[i] = Line(tag, n)}

\* C12: the uploads of one submission are strictly sequential.  Every call of
\* an upload belongs to the file the loop is at; the calls of file f+1 (folder
\* reads, folder creations, transfer calls) are all issued after the call that
\* completed file f, so calls of two files never interleave; and the log lines
\* of file f (Uploading, Uploaded) all precede the lines of file f+1.
C12_UploadsSequential ==
  /\ \A i \in DOMAIN calls :
       /\ calls[i].kind \in UploadKinds <=> calls[i].file > 0
       /\ calls[i].file > 0 =>
            /\ calls[i].file <= sub.fileIdx
            /\ \A j \in DOMAIN calls : (j > i /\ calls[j].file > 0) => calls[j].file >= calls[i].file
            /\ calls[i].file > 1 => UploadCompletedBefore(calls[i].file - 1, i)
  /\ \A f \in 1..Len(sub.files0) :
       /\ Cardinality({i \in DOMAIN calls : calls[i].file = f /\ calls[i].ok
                         /\ calls[i].kind \in {"putContent", "finalGet"}}) <= 1
       /\ Cardinality(LinesOf("Uploading", f)) <= 1
       /\ Cardinality(LinesOf("Uploaded", f)) <= 1
       /\ \A i \in LinesOf("Uploaded", f) : \E j \in LinesOf("Uploading", f) : j < i
       /\ \A i \in LinesOf("Uploading", f) :
            f > 1 => \E j \in LinesOf("Uploaded", f - 1) : j < i
\* every file of a submission over MaxFiles files was uploaded, the folders
\* having been created for the first
C12_Witness ==
  /\ Len(sub.files0) = MaxFiles
  /\ Len(sub.uploadedItems) = MaxFiles
  /\ LinesOf("Uploaded", MaxFiles) # {}
  /\ \E i \in DOMAIN calls : calls[i].kind = "folderCreate" /\ calls[i].file = 1
  /\ \E i \in DOMAIN calls : calls[i].kind \in {"putContent", "finalGet"} /\ calls[i].file = MaxFiles

(***************************************************************************)
(* The session: sign-in, sign-out, unmount, and the priming passes the     *)
(* effect starts.  A pass that ended stays in `prime` with the way it      *)
(* ended: "written", "failed" (its catch block ran) or "discarded".        *)
(***************************************************************************)
Accounts == {"user"}
PassEnds == {"written", "failed", "discarded"}

\* a faulty variant of the reset: the primed flag is left set
resetSharePointStateKeepsPrimed ==
  [resolved |-> EmptyResolved, titleChoices |-> Null, villageChoices |-> Null,
   choicesPrimed |-> TRUE]
\* resetSharePointState(): the values it sets
resetSharePointState ==
  [resolved |-> EmptyResolved, titleChoices |-> Null, villageChoices |-> Null,
   choicesPrimed |-> FALSE]
\* the four updates of resetSharePointState
ResetCache ==
  /\ resolved' = resetSharePointState.resolved
  /\ titleChoices' = resetSharePointState.titleChoices
  /\ villageChoices' = resetSharePointState.villageChoices
  /\ choicesPrimed' = resetSharePointState.choicesPrimed

\* signIn: the popup, then the reset and the account; when the popup fails,
\* the log line and the redirect, which leaves the page
SignIn ==
  /\ mounted /\ msalReady /\ account = "none"
  /\ \/ /\ sessions' = sessions + 1
        /\ \E a \in Accounts : account' = a
        /\ ResetCache
        /\ UNCHANGED <<log, mounted>>
     \/ /\ log' = Append(log, Line("[Auth] Popup sign-in blocked", 0))
        /\ mounted' = FALSE
        /\ UNCHANGED <<account, cacheVars, choicesPrimed, sessions>>
  /\ UNCHANGED <<CONFIG, msalReady, files, form, busy, world, remoteVars, calls, clock,
                 readFaults, sub, pureVars>>
  /\ Rendered(prime, TRUE)

\* signOut: the popup, then the account and the reset; when the popup fails,
\* the log line, the redirect, which leaves the page, and the reset
SignOut ==
  /\ mounted /\ msalReady /\ account # "none"
  /\ \/ /\ account' = "none"
        /\ UNCHANGED <<log, mounted>>
     \/ /\ log' = Append(log, Line("[Auth] Popup sign-out blocked", 0))
        /\ mounted' = FALSE
        /\ UNCHANGED account
  /\ ResetCache
  /\ UNCHANGED <<CONFIG, msalReady, files, form, busy, world, remoteVars, calls, clock,
                 readFaults, sub, pureVars, sessions>>
  /\ Rendered(prime, TRUE)

\* the component unmounts: the effect's cleanup runs
Unmount ==
  /\ mounted
  /\ mounted' = FALSE
  /\ UNCHANGED <<CONFIG, uiVars, busy, log, cacheVars, world, remoteVars, calls, clock,
                 readFaults, sub, pureVars, choicesPrimed, sessions>>
  /\ Rendered(prime, FALSE)

\* addLog from a pass: a state update, dropped once the component is unmounted
Logged(lines) == IF mounted THEN log \o lines ELSE log
\* the passes after pass i took a step that left it as p
\* and issued newCalls
PassStep(i, p, newCalls) ==
  [prime EXCEPT ![i] = [p EXCEPT !.pc = IF p.pc \in PassEnds \cup {"siteSearch"}
                                          THEN p.pc ELSE passPc(p),
                                 !.calls = p.calls \o newCalls]]

\* the transport fails on this call of a priming pass
Faulted(kind) == world.faultAt = kind

\* a faulty variant of the cancellation test: a cancelled pass writes
passDiscardsNever(p) == FALSE
\* if (cancelled) return;
passDiscards(p) == p.cancelled

\* a faulty variant of the catch block: it stores the identifiers resolved so far
cacheAfterFailureStoresPartial(cache, p) ==
  [siteId |-> p.siteId, listId |-> p.listId, driveId |-> p.driveId]
\* the catch block of preloadChoices does not call setResolved
cacheAfterFailure(cache, p) == cache

\* the catch block of preloadChoices
PrimeFail(i, newCalls) ==
  /\ IF passDiscards(prime[i])
       THEN /\ UNCHANGED <<cacheVars, choicesPrimed, log>>
            /\ Rendered(PassStep(i, [prime[i] EXCEPT !.pc = "discarded"], newCalls), FALSE)
       ELSE /\ choicesPrimed' = TRUE
            /\ titleChoices' = Null
            /\ villageChoices' = Null
            /\ resolved' = cacheAfterFailure(resolved, prime[i])
            /\ log' = Append(log, Line("Choice preload failed", 0))
            /\ Rendered(PassStep(i, [prime[i] EXCEPT !.pc = "failed"], newCalls), FALSE)

\* preloadChoices: getSiteId's direct lookup
PrimeSite ==
  \E i \in DOMAIN prime :
    /\ prime[i].pc = "site"
    /\ UNCHANGED <<CONFIG, uiVars, busy, cacheVars, world, remoteVars, calls, clock,
                   readFaults, sub, pureVars, sessionRest>>
    /\ \/ /\ toStr(CONFIG.spSiteHostname) # <<>> /\ toStr(CONFIG.spSitePath) # <<>>
          /\ world.directSiteId # Null
          /\ ~Faulted("siteDirect")
          /\ UNCHANGED log
          /\ Rendered(PassStep(i, [prime[i] EXCEPT !.siteId = world.directSiteId],
                               <<Call("siteDirect", TRUE)>>), FALSE)
       \/ /\ \/ toStr(CONFIG.spSiteHostname) = <<>> \/ toStr(CONFIG.spSitePath) = <<>>
             \/ world.directSiteId = Null
             \/ Faulted("siteDirect")
          /\ log' = Logged(<<Line("[Site Resolve] Direct lookup failed", 0),
                             Line("[Site Resolve] Trying discovery", 0)>>)
          /\ Rendered(PassStep(i, [prime[i] EXCEPT !.pc = "siteSearch"],
                               IF toStr(CONFIG.spSiteHostname) = <<>>
                                  \/ toStr(CONFIG.spSitePath) = <<>>
                                 THEN <<>> ELSE <<Call("siteDirect", FALSE)>>), FALSE)

\* preloadChoices: getSiteId's fallback search
PrimeSiteSearch ==
  \E i \in DOMAIN prime :
    /\ prime[i].pc = "siteSearch"
    /\ UNCHANGED <<CONFIG, uiVars, busy, world, remoteVars, calls, clock, readFaults,
                   sub, pureVars, mounted, sessions>>
    /\ \/ /\ Faulted("siteSearch")
          /\ PrimeFail(i, <<Call("siteSearch", FALSE)>>)
       \/ /\ ~Faulted("siteSearch") /\ world.candidates = <<>>
          /\ PrimeFail(i, <<Call("siteSearch", TRUE)>>)
       \/ /\ ~Faulted("siteSearch") /\ world.candidates # <<>>
          /\ log' = Logged(<<Line("[Site Resolve] Using discovered site", 0)>>)
          /\ UNCHANGED <<cacheVars, choicesPrimed>>
          /\ Rendered(PassStep(i, [prime[i] EXCEPT !.pc = "list",
                                      !.siteId = chooseSite(world.candidates, CONFIG).id],
                               <<Call("siteSearch", TRUE)>>), FALSE)

\* preloadChoices: resolveListId
PrimeList ==
  \E i \in DOMAIN prime :
    /\ prime[i].pc = "list"
    /\ UNCHANGED <<CONFIG, uiVars, busy, world, remoteVars, calls, clock, readFaults,
                   sub, pureVars, mounted, sessions>>
    /\ IF isGuid(CONFIG.spListIdOrName)
         THEN /\ UNCHANGED <<log, cacheVars, choicesPrimed>>
              /\ Rendered(PassStep(i, [prime[i] EXCEPT !.listId = CONFIG.spListIdOrName],
                                   <<>>), FALSE)
         ELSE LET found == listsNamed(world.lists, toStr(CONFIG.spListIdOrName))
              IN \/ /\ Faulted("listQuery")
                    /\ PrimeFail(i, <<Call("listQuery", FALSE)>>)
                 \/ /\ ~Faulted("listQuery") /\ found = <<>>
                    /\ PrimeFail(i, <<Call("listQuery", TRUE)>>)
                 \/ /\ ~Faulted("listQuery") /\ found # <<>>
                    /\ UNCHANGED <<log, cacheVars, choicesPrimed>>
                    /\ Rendered(PassStep(i, [prime[i] EXCEPT !.listId = found[1].id],
                                         <<Call("listQuery", TRUE)>>), FALSE)

\* preloadChoices: resolveDriveId
PrimeDrive ==
  \E i \in DOMAIN prime :
    /\ prime[i].pc = "drive"
    /\ UNCHANGED <<CONFIG, uiVars, busy, world, remoteVars, calls, clock, readFaults,
                   sub, pureVars, mounted, sessions>>
    /\ LET malformed == decodeURIComponent(toStr(CONFIG.spLibraryDriveIdOrName)) = URIError
           found == IF malformed THEN <<>>
                    ELSE findDrive(world.drives, CONFIG.spLibraryDriveIdOrName)
           driveId == IF isGuid(CONFIG.spLibraryDriveIdOrName)
                        THEN <<CONFIG.spLibraryDriveIdOrName>>
                        ELSE [k \in DOMAIN found |-> found[k].id]
       IN \/ /\ Faulted("drives")
             /\ PrimeFail(i, <<Call("drives", FALSE)>>)
          \/ /\ ~Faulted("drives") /\ driveId = <<>>
             /\ PrimeFail(i, <<Call("drives", TRUE)>>)
          \/ /\ ~Faulted("drives") /\ driveId # <<>>
             /\ UNCHANGED <<log, cacheVars, choicesPrimed>>
             /\ Rendered(PassStep(i, [prime[i] EXCEPT !.driveId = driveId[1]],
                                  <<Call("drives", TRUE)>>), FALSE)

\* preloadChoices: getColumns, the field selection, and the cache update
PrimeColumns ==
  \E i \in DOMAIN prime :
    /\ prime[i].pc = "columns"
    /\ UNCHANGED <<CONFIG, uiVars, busy, world, remoteVars, calls, clock, readFaults,
                   sub, pureVars, mounted, sessions>>
    /\ \/ /\ Faulted("columns")
          /\ PrimeFail(i, <<Call("columns", FALSE)>>)
       \/ LET schema == getColumns(world.columns)
              villageName == chooseField(schema.byLower, schema.metaByName,
                                         VillageCandidates, TRUE)
              categoryOptionsName == chooseField(schema.byLower, schema.metaByName,
                                                 CategoryCandidates, FALSE)
          IN /\ ~Faulted("columns")
             /\ UNCHANGED log
             /\ IF passDiscards(prime[i])
                  THEN /\ UNCHANGED <<cacheVars, choicesPrimed>>
                       /\ Rendered(PassStep(i, [prime[i] EXCEPT !.pc = "discarded"],
                                            <<Call("columns", TRUE)>>), FALSE)
                  ELSE /\ resolved' = [siteId |-> prime[i].siteId,
                                       listId |-> prime[i].listId,
                                       driveId |-> prime[i].driveId]
                       /\ villageChoices' = choicesFor(schema, villageName)
                       /\ titleChoices' = choicesFor(schema, categoryOptionsName)
                       /\ choicesPrimed' = TRUE
                       /\ Rendered(PassStep(i, [prime[i] EXCEPT !.pc = "written"],
                                            <<Call("columns", TRUE)>>), TRUE)

\* the state once boot has run: auth initialised, the account it found, if
\* any, and the pass the effect started for it
Booted(sc, a) ==
  /\ CONFIG = sc.config
  /\ account = a
  /\ msalReady = TRUE
  /\ files = sc.files
  /\ form = BaseForm
  /\ busy = FALSE
  /\ log = <<>>
  /\ resolved = EmptyResolved
  /\ villageChoices = Null
  /\ titleChoices = Null
  /\ world = sc.world
  /\ rfolders = sc.rfolders
  /\ ritems = <<>>
  /\ rrecords = <<>>
  /\ calls = <<>>
  /\ clock = 1
  /\ readFaults = 0
  /\ sub = IdleSub
  /\ prime = effectRun(<<>>, a, TRUE, FALSE, EmptyResolved)
  /\ choicesPrimed = FALSE
  /\ mounted = TRUE
  /\ sessions = IF a = "none" THEN 0 ELSE 1
  /\ fsel = FselOff /\ pfmt = PfmtOff /\ alias = AliasOff /\ dfmt = DfmtOff /\ nfmt = NfmtOff

(***************************************************************************)
(* The session specification: sign-ins, sign-outs and the unmount, with    *)
(* the priming passes they start and cancel.                               *)
(***************************************************************************)
\* remotes on which a pass resolves everything, finds nothing, or meets a
\* transport failure at one of its calls
FaultWorlds ==
  {[BaseWorld EXCEPT !.faultAt = k] : k \in {"none", "siteDirect", "listQuery", "drives", "columns"}}
  \cup {[BaseWorld EXCEPT !.directSiteId = Null, !.faultAt = "siteSearch"],
        [BaseWorld EXCEPT !.directSiteId = Null, !.candidates = <<>>],
        [BaseWorld EXCEPT !.lists = <<>>],
        [BaseWorld EXCEPT !.drives = <<>>]}
SessionScenarios == {Scenario(BaseConfig, w, <<>>, EmptyResolved, {}) : w \in FaultWorlds}
InitSession == \E sc \in SessionScenarios, a \in {"none", "user"} : Booted(sc, a)

\* the passes run on after an unmount
NextSession ==
  \/ SignIn
  \/ SignOut
  \/ Unmount
  \/ PrimeSite
  \/ PrimeSiteSearch
  \/ PrimeList
  \/ PrimeDrive
  \/ PrimeColumns

SpecSession == InitSession /\ [][NextSession]_vars

(***************************************************************************)
(* The cache specification: one signed-in session in which submit() runs   *)
(* beside the priming passes; both write the session cache.                *)
(***************************************************************************)
\* a search result that lists, before the configured site, another site
\* whose address holds the configured path
SiteNearby == Site(<<"S","8">>, <<"h","t","t","p","s",":","/","/","x",".","s","h","a","r","e","p","o","i","n","t",".","c","o","m","/","s","i","t","e","s","/","w","2">>, BaseConfig.spSiteHostname)
SiteConfigured == Site(BaseWorld.directSiteId, <<"h","t","t","p","s",":","/","/","x",".","s","h","a","r","e","p","o","i","n","t",".","c","o","m","/","s","i","t","e","s","/","w">>, BaseConfig.spSiteHostname)
CacheScenarios ==
  {Scenario(BaseConfig, w, <<File(1, 0)>>, EmptyResolved, {}) : w \in FaultWorlds}
  \cup {Scenario(BaseConfig, BaseWorld, <<File(1, chunkSize + 1)>>, EmptyResolved,
                 provisioned(BaseConfig.libraryFolderPath)),
        Scenario(BaseConfig, [BaseWorld EXCEPT !.candidates = <<SiteNearby, SiteConfigured>>],
                 <<File(1, 0)>>, EmptyResolved, {})}
InitCache == \E sc \in CacheScenarios : Booted(sc, "user")

NextCache ==
  \/ PrimeSite
  \/ PrimeSiteSearch
  \/ PrimeList
  \/ PrimeDrive
  \/ PrimeColumns
  \/ SubmitStart
  \/ Probes
  \/ SiteDirect
  \/ SiteSearch
  \/ ResolveList
  \/ ResolveDrive
  \/ Columns
  \/ UploadBegin
  \/ FolderRead
  \/ FolderCreate
  \/ PutContent
  \/ CreateUploadSession
  \/ PutChunk
  \/ FinalGet
  \/ CreateListItem

SpecCache == InitCache /\ [][NextCache]_vars

(***************************************************************************)
(* Properties of the session cache.                                        *)
(***************************************************************************)
\* the session cache is empty
CacheEmpty(res, village, title, primed) ==
  res = EmptyResolved /\ village = Null /\ title = Null /\ ~primed
\* an identifier triple with every identifier present
Complete(res) == res.siteId # Null /\ res.listId # Null /\ res.driveId # Null
\* the positions of the calls of one kind a pass issued
PassCalls(k) ==
  UNION { {<<i, j>> : j \in {n \in DOMAIN prime[i].calls : prime[i].calls[n].kind = k}} :
          i \in DOMAIN prime }
\* a step in which a sign-out completes (by popup, or by the redirect after
\* the popup was blocked) or a sign-in succeeds
SignOutCompletes ==
  \/ account # "none" /\ account' = "none"
  \/ /\ Len(log') = Len(log) + 1
     /\ log'[Len(log')] = Line("[Auth] Popup sign-out blocked", 0)
SignInSucceeds == account = "none" /\ account' # "none"

\* C13: every step in which a sign-out completes, and every step in which a
\* sign-in succeeds, leaves the session cache empty: the site, list and drive
\* identifiers null, both choice lists null, the primed flag false.
C13_CacheEmptyAfterSignOutAndSignIn ==
  [][(SignOutCompletes \/ SignInSucceeds)
       => CacheEmpty(resolved', villageChoices', titleChoices', choicesPrimed')]_vars
\* a pass filled the cache in the first session; the user signed out and in
\* again, and the cache is empty while the second session's pass is in flight
C13_Witness ==
  /\ sessions = 2
  /\ account # "none"
  /\ Len(prime) = 2
  /\ prime[1].pc = "written"
  /\ prime[2].pc \notin PassEnds
  /\ CacheEmpty(resolved, villageChoices, titleChoices, choicesPrimed)

\* a step that invalidates the session: sign-out, sign-in, unmount
Invalidates == SignOutCompletes \/ SignInSucceeds \/ (mounted /\ ~mounted')
\* pass i ends in this step
PassEndsNow(i) == prime[i].pc \notin PassEnds /\ prime'[i].pc \in PassEnds

TripleOf(r) == [siteId |-> r.siteId, listId |-> r.listId, driveId |-> r.driveId]
\* submit() fails in this step on a transport failure
SubmitFailsOnTransport == sub.pc # "failed" /\ sub'.pc = "failed" /\ sub'.error = "network"

\* C15: the cached identifiers are always all null or all present.  The step
\* in which a submission fails on a transport failure, and the step in which
\* a priming pass ends without having resolved everything and read the
\* columns, leave the cached identifiers as they were; and every step that
\* changes them stores the complete triple the writing run resolved.
C15_FailureLeavesCacheWhole ==
  /\ [](resolved = EmptyResolved \/ Complete(resolved))
  /\ [][/\ SubmitFailsOnTransport => resolved' = resolved
        /\ \A i \in DOMAIN prime :
             (PassEndsNow(i) /\ prime'[i].pc # "written") => resolved' = resolved
        /\ resolved' # resolved =>
             /\ Complete(resolved')
             /\ \/ sub.pc = "columns" /\ resolved' = TripleOf(sub)
                \/ \E i \in DOMAIN prime :
                     /\ PassEndsNow(i) /\ prime'[i].pc = "written"
                     /\ resolved' = TripleOf(prime[i])]_vars
\* a pass failed on the transport at its columns call, and the submission,
\* having stored the identifiers it resolved, failed on the transport during
\* the upload
C15_Witness ==
  /\ sub.pc = "failed" /\ sub.error = "network" /\ sub.fileIdx = 1
  /\ Complete(resolved) /\ resolved = TripleOf(sub)
  /\ \E i \in DOMAIN prime :
       /\ prime[i].pc = "failed"
       /\ prime[i].calls # <<>>
       /\ ~prime[i].calls[Len(prime[i].calls)].ok

\* the columns requests issued so far, by submit() and by the passes
ColumnFetches == NumCalls("columns") + Cardinality(PassCalls("columns"))

\* C16: within one session the list's column metadata is requested at most
\* once, however many priming passes and submissions run.
C16_ColumnsFetchedOncePerSession == ColumnFetches <= 1

\* the calls that resolve the site, the list and the drive
ResolutionKinds == {"siteDirect", "siteSearch", "listQuery", "drives"}

\* C17: a submission that starts with all three identifiers cached issues no
\* site lookup, site search, list query or drive listing, and works with the
\* cached identifiers only: its locals, the triple it stores after reading
\* the columns, and the site and list of the record it creates are the
\* cached ones.
C17_FullCacheSkipsResolution ==
  (sub.pc # "idle" /\ Complete(sub.resolved0)) =>
    /\ \A i \in DOMAIN calls : calls[i].kind \notin ResolutionKinds
    /\ sub.siteId \in {Null, sub.resolved0.siteId}
    /\ sub.listId \in {Null, sub.resolved0.listId}
    /\ sub.driveId \in {Null, sub.resolved0.driveId}
    /\ resolved = sub.resolved0
    /\ \A i \in DOMAIN rrecords :
         rrecords[i].site = sub.resolved0.siteId /\ rrecords[i].list = sub.resolved0.listId
\* a submission ran to its end on cached identifiers that a lookup would not
\* have returned
C17_Witness ==
  /\ sub.pc = "done"
  /\ sub.resolved0 = OtherResolved
  /\ TripleOf(sub) = OtherResolved
  /\ Len(rrecords) = 1
  /\ NumCalls("columns") = 1
  /\ NumCalls("folderCreate") >= 1

\* the configured list values that have the shape of an identifier
GuidShaped == {GuidPlain, GuidBraced}

\* C20: resolveListId, called because no list identifier is cached.  For a
\* value in the shape of an identifier it issues no list query and returns
\* the value unchanged.  For any other value it issues one list query by
\* name; when the query returns no list the run fails with the list-not-found
\* error, and otherwise the identifier of the first list returned is used.
C20_ResolveListByShape ==
  sub.resolved0.listId = Null =>
    IF CONFIG.spListIdOrName \in GuidShaped
      THEN /\ NumCalls("listQuery") = 0
           /\ sub.listId \in {Null, CONFIG.spListIdOrName}
           /\ sub.pc \in {"drive", "columns", "file", "done"}
                => sub.listId = CONFIG.spListIdOrName
      ELSE /\ NumCalls("listQuery") <= 1
           /\ sub.pc \in {"drive", "columns", "file", "done"} => NumCalls("listQuery") = 1
           /\ \A i \in CallsOfKind("listQuery") :
                LET found == listsNamed(world.lists, toStr(CONFIG.spListIdOrName))
                IN IF calls[i].ok /\ found = <<>>
                     THEN /\ sub.pc = "failed" /\ sub.error = "List not found"
                          /\ sub.listId = Null /\ i = Len(calls)
                     ELSE calls[i].ok => sub.listId = found[1].id
\* a run used the configured identifier without a list query and created its
\* record in that list
C20_Witness ==
  /\ sub.pc = "done"
  /\ sub.resolved0.listId = Null
  /\ CONFIG.spListIdOrName \in GuidShaped
  /\ sub.listId = CONFIG.spListIdOrName
  /\ NumCalls("listQuery") = 0
  /\ Len(rrecords) = 1 /\ rrecords[1].list = CONFIG.spListIdOrName

(***************************************************************************)
(* The alias-index specification: getColumns' loop run column by column    *)
(* over every short listing of columns from a small stock, then two        *)
(* look-ups through the index it built, made as chooseField makes them.    *)
(***************************************************************************)
\* most columns in a listing
MaxColumns == 2
AliasInternalNames == { <<>>, <<"P","h","o","t","o","U","r","l">>, <<"P","h","o","t","o","_","U","r","l">>, <<"A","b">> }
AliasDisplayNames == { <<>>, <<"C", "o", "n", "s", "t", "r", "u", "c", "t", "o", "r">>, <<"P","h","o","t","o"," ","U","R","L">>, <<" ","p","h","o","t","o","-","u","r","l"," ">>, <<"C","a","p","_","O","n">> }
AliasColumns ==
  {Column(n, d, "text", FALSE, FALSE) : n \in AliasInternalNames, d \in AliasDisplayNames}
AliasListings == UNION {[1..n -> AliasColumns] : n \in 0..MaxColumns}
\* names handed to the look-up
LookupNames ==
  { <<"C", "o", "n", "s", "t", "r", "u", "c", "t", "o", "r">>, <<"c", "o", "n", "s", "t", "r", "u", "c", "t", "o", "r">>,
    <<"P","h","o","t","o","U","r","l">>, <<"p","h","o","t","o","u","r","l">>, <<"P","H","O","T","O"," ","U","R","L">>, <<"P","h","o","t","o","_","U","r","l">>, <<"p","h","o","t","o","-","u","r","l">>,
    <<" ","P","h","o","t","o","U","r","l">>, <<"P","h","o","t","o"," "," ","U","R","L">>, <<"A","b">>, <<"a",".","b">> }

InitAlias ==
  /\ InitFrom(Scenario(BaseConfig, BaseWorld, BaseFiles, EmptyResolved, {}))
  /\ fsel = FselOff
  /\ pfmt = PfmtOff
  /\ dfmt = DfmtOff /\ nfmt = NfmtOff
  /\ alias \in [pc : {"listing"}, cols : AliasListings, next : {1}, schema : {EmptySchema},
                names : {<<>>}, hits : {<<>>}]

\* one iteration of `for (const c of cols?.value || [])`, or the return
AliasAddColumn ==
  /\ alias.pc = "listing"
  /\ alias' = IF alias.next <= Len(alias.cols)
                THEN [alias EXCEPT !.schema = addColumn(alias.schema, alias.cols[alias.next]),
                                   !.next = alias.next + 1]
                ELSE [alias EXCEPT !.pc = "built"]
  /\ UNCHANGED <<CONFIG, uiVars, busy, log, cacheVars, world, remoteVars, calls, clock,
                 readFaults, sub, fsel, pfmt, dfmt, nfmt, sessionVars>>

\* two names with the same letters and digits, case aside
sameNormalForm(a, b) == stripNonAlnum(toLowerCase(a)) = stripNonAlnum(toLowerCase(b))

\* chooseField called with each of two such names as its only candidate
AliasLookup ==
  /\ alias.pc = "built"
  /\ \E a \in LookupNames, b \in LookupNames :
       /\ a # b /\ sameNormalForm(a, b)
       /\ alias' = [alias EXCEPT
                      !.pc = "looked", !.names = <<a, b>>,
                      !.hits = <<chooseField(alias.schema.byLower, alias.schema.metaByName,
                                             <<a>>, FALSE),
                                 chooseField(alias.schema.byLower, alias.schema.metaByName,
                                             <<b>>, FALSE)>>]
  /\ UNCHANGED <<CONFIG, uiVars, busy, log, cacheVars, world, remoteVars, calls, clock,
                 readFaults, sub, fsel, pfmt, dfmt, nfmt, sessionVars>>

NextAlias == AliasAddColumn \/ AliasLookup

SpecAlias == InitAlias /\ [][NextAlias]_vars

(***************************************************************************)
(* Properties of the alias index.                                          *)
(***************************************************************************)
\* C18: for every listing of columns and every two look-up names that differ
\* only in letter case, whitespace or non-alphanumeric punctuation, the two
\* look-ups through the alias index yield the same internal name, or none
\* for both.
C18_VariantsResolveAlike ==
  alias.pc = "looked" => alias.hits[1] = alias.hits[2]

\* the keys a column offers to the index: its internal name and its display
\* name, each as it stands, with underscores as spaces (internal name) or
\* without whitespace (display name), and without non-alphanumerics; all
\* trimmed and lower-cased, the empty ones left out
keyOf(text) == toLowerCase(trim(text))
KeysOffered(c) ==
  IF toStr(c.name) = <<>> THEN {}
  ELSE ({keyOf(c.name), keyOf(underscoresToSpaces(c.name)), keyOf(stripNonAlnum(c.name))}
        \cup (IF toStr(c.displayName) = <<>> THEN {}
              ELSE {keyOf(c.displayName), keyOf(stripSpaces(c.displayName)),
                    keyOf(stripNonAlnum(c.displayName))}))
       \ {<<>>}
\* the columns processed so far
Processed == SubSeq(alias.cols, 1, alias.next - 1)

\* C19: at every point of getColumns' loop, a key offered by two of the
\* columns processed so far reads, through the index, as the internal name
\* of the first-listed column that offered it; and processing a column
\* never changes the mapping of a key already registered.
C19_FirstListedColumnWins ==
  /\ [](alias.pc # "off" =>
          \A i \in DOMAIN Processed : \A j \in (i + 1)..Len(Processed) :
            \A k \in KeysOffered(Processed[i]) \cap KeysOffered(Processed[j]) :
              LET firstAt == CHOOSE f \in 1..i :
                               /\ k \in KeysOffered(Processed[f])
                               /\ \A e \in 1..(f - 1) : k \notin KeysOffered(Processed[e])
              IN Get(alias.schema.byLower, k) = Processed[firstAt].name)
  /\ [][\A k \in DOMAIN alias.schema.byLower :
          /\ k \in DOMAIN alias'.schema.byLower
          /\ alias'.schema.byLower[k] = alias.schema.byLower[k]]_vars

(***************************************************************************)
(* Properties of the drive and site resolution.                            *)
(***************************************************************************)
\* the drive step of the submission ran without a cached drive identifier
DriveStepRan == sub.resolved0.driveId = Null /\ NumCalls("drives") > 0

\* C21: resolveDriveId called with an identifier-shaped value returns that
\* value unchanged whatever the remote holds, also when the listing of the
\* site's drives fails or is empty: once the drive step ran for such a value
\* the submission holds it as its drive identifier.
C21_GuidDriveReturnedUnchanged ==
  (DriveStepRan /\ isGuid(CONFIG.spLibraryDriveIdOrName))
    => sub.driveId = CONFIG.spLibraryDriveIdOrName
\* the same, for the listings that succeed (empty ones included)
GuidDriveReturnedWhenListed ==
  (DriveStepRan /\ isGuid(CONFIG.spLibraryDriveIdOrName)
     /\ \A i \in CallsOfKind("drives") : calls[i].ok)
    => sub.driveId = CONFIG.spLibraryDriveIdOrName
GuidDriveOverEmptyListing ==
  /\ DriveStepRan /\ isGuid(CONFIG.spLibraryDriveIdOrName) /\ world.drives = <<>>
  /\ sub.driveId = CONFIG.spLibraryDriveIdOrName

\* the drive step ran for a name, and its listing came back
DriveListedForName ==
  /\ DriveStepRan
  /\ ~isGuid(CONFIG.spLibraryDriveIdOrName)
  /\ \A i \in CallsOfKind("drives") : calls[i].ok
NameEquals(d) ==
  toLowerCase(toStr(d.name)) = toLowerCase(toStr(CONFIG.spLibraryDriveIdOrName))
IsLibraryDrive(d) == toLowerCase(toStr(d.driveType)) = <<"d","o","c","u","m","e","n","t","l","i","b","r","a","r","y">>
\* what the three-way rule asks of the submission after the drive step
DriveRuleKept ==
  LET named == SelectSeq(world.drives, NameEquals)
      libs == SelectSeq(world.drives, IsLibraryDrive)
  IN IF named # <<>> THEN sub.driveId = named[1].id
     ELSE IF libs # <<>> THEN sub.driveId = libs[1].id
     ELSE sub.pc = "failed" /\ sub.error = "Drive not found"

\* C22: resolveDriveId called with a name returns the first listed drive
\* whose name equals it, letter case aside, when there is one; otherwise the
\* first listed drive of document-library type; and fails with the error
\* that lists the drive names only when there is neither.
C22_DriveByNameThenLibrary == DriveListedForName => DriveRuleKept
\* the same, for the names that hold no percent sign
DriveByNameWithoutPercent ==
  (DriveListedForName /\ "%" \notin Range(toStr(CONFIG.spLibraryDriveIdOrName)))
    => DriveRuleKept
\* the fallback to the first library and the failure both occur
DriveFallbackTaken ==
  /\ DriveListedForName
  /\ SelectSeq(world.drives, NameEquals) = <<>>
  /\ sub.driveId = <<"D","2">> /\ Len(world.drives) = 3
DriveNotFoundRaised ==
  DriveListedForName /\ sub.error = "Drive not found" /\ world.drives # <<>>

\* getSiteId ran without a cached site identifier and its direct lookup failed
DirectLookupFailed ==
  /\ sub.resolved0.siteId = Null
  /\ sub.pc \notin {"idle", "probe", "site"}
  /\ \/ toStr(CONFIG.spSiteHostname) = <<>> \/ toStr(CONFIG.spSitePath) = <<>>
     \/ \E i \in CallsOfKind("siteDirect") : ~calls[i].ok
SearchReturned == \E i \in CallsOfKind("siteSearch") : calls[i].ok
\* "contains", letter case aside; a missing URL or hostname contains only the
\* empty text
UrlHoldsPath(s) ==
  includes(toLowerCase(toStr(s.webUrl)), toLowerCase(toStr(CONFIG.spSitePath)))
HostHoldsHost(s) ==
  includes(toLowerCase(toStr(s.hostname)), toLowerCase(toStr(CONFIG.spSiteHostname)))
MatchesBoth(s) == UrlHoldsPath(s) /\ HostHoldsHost(s)
\* the position the order of preference picks among the candidates
FirstAt(cs, P(_)) == CHOOSE i \in DOMAIN cs : P(cs[i]) /\ \A j \in 1..(i - 1) : ~P(cs[j])
PreferredAt(cs) ==
  IF \E i \in DOMAIN cs : MatchesBoth(cs[i]) THEN FirstAt(cs, MatchesBoth)
  ELSE IF \E i \in DOMAIN cs : UrlHoldsPath(cs[i]) THEN FirstAt(cs, UrlHoldsPath)
  ELSE 1

\* C23: when the direct site lookup fails, getSiteId runs the fallback
\* search; from a non-empty result it takes the first candidate whose URL
\* contains the configured path and whose hostname contains the configured
\* hostname, else the first whose URL contains the path, else the first
\* candidate; from an empty result it fails with an error.
C23_SiteSearchPreference ==
  DirectLookupFailed =>
    /\ sub.pc = "siteSearch" \/ NumCalls("siteSearch") = 1
    /\ SearchReturned =>
         IF world.candidates = <<>>
           THEN sub.pc = "failed" /\ sub.error = "Could not discover site"
           ELSE sub.siteId = world.candidates[PreferredAt(world.candidates)].id
\* three candidates, exactly one matching path and hostname, the last of
\* them, after one that matches the path only: the last one was chosen
C23_Witness ==
  /\ DirectLookupFailed /\ SearchReturned
  /\ Len(world.candidates) = 3
  /\ Cardinality({i \in 1..3 : MatchesBoth(world.candidates[i])}) = 1
  /\ MatchesBoth(world.candidates[3])
  /\ UrlHoldsPath(world.candidates[1])
  /\ sub.siteId = world.candidates[3].id

(***************************************************************************)
(* Properties of the upload targets.                                       *)
(***************************************************************************)
\* the requests that write, or open the write of, a file at a target path
WriteKinds == {"putContent", "createUploadSession"}
WritesIssued == {i \in DOMAIN calls : calls[i].kind \in WriteKinds /\ calls[i].ok}
\* the selection holds no file twice, as onFilesChanged sees to
FilesDistinct ==
  \A i, j \in DOMAIN sub.files0 : i # j => fileKey(sub.files0[i]) # fileKey(sub.files0[j])

\* C24: distinct files of a submission are written to distinct remote
\* paths: no upload targets the path another upload of the submission
\* targeted.
C24_UploadsTargetDistinctPaths ==
  FilesDistinct =>
    \A i, j \in WritesIssued : calls[i].file # calls[j].file => calls[i].path # calls[j].path
\* the second of two small files replaced the content of the first: two
\* direct writes went through and the drive holds one item
SecondWriteReplacedFirst ==
  /\ FilesDistinct
  /\ Cardinality({i \in WritesIssued : calls[i].kind = "putContent"}) = 2
  /\ Len(ritems) = 1
\* files whose sanitized names differ, or that are stamped in different
\* seconds, are written to different paths
NameAt(i) == buildTargetFileName(sub.files0[i], sub.form0.village, Stamps[1])
DistinctNamesDistinctPaths ==
  \A i, j \in WritesIssued :
    (calls[i].file # calls[j].file /\ NameAt(calls[i].file) # NameAt(calls[j].file))
      => calls[i].path # calls[j].path

(***************************************************************************)
(* The date specification: formatDateTimeForSharePoint applied to wall-    *)
(* clock values a date-time input can hold, on the days around the zone's  *)
(* two changes of offset and on days far from them.  The conversion reads  *)
(* the zone's rules only, never the device's zone, so the device is no     *)
(* input of it.                                                            *)
(***************************************************************************)
EnteredDays ==
  { <<2024, 2, 29>>, <<2025, 7, 1>>, <<2025, 9, 27>>, <<2025, 9, 28>>, <<2025, 12, 31>>,
    <<2026, 1, 1>>, <<2026, 4, 4>>, <<2026, 4, 5>> }
EnteredMinutes == {0, 30, 59}
\* the value of the input for a wall-clock reading: YYYY-MM-DDTHH:MM
EnteredValues ==
  { formatDateTimeLocal([year |-> d[1], month |-> d[2], day |-> d[3], hour |-> h,
                         minute |-> m, second |-> 0]) :
      d \in EnteredDays, h \in 0..23, m \in EnteredMinutes }

InitDate ==
  /\ InitFrom(Scenario(BaseConfig, BaseWorld, BaseFiles, EmptyResolved, {}))
  /\ fsel = FselOff
  /\ pfmt = PfmtOff
  /\ alias = AliasOff
  /\ dfmt \in [pc : {"ready"}, value : EnteredValues, out : {<<>>}]
  /\ nfmt = NfmtOff

\* one call of formatDateTimeForSharePoint(capturedOn, NZ_TIME_ZONE)
DateFormat ==
  /\ dfmt.pc = "ready"
  /\ dfmt' = [dfmt EXCEPT !.pc = "returned", !.out = formatDateTimeForSharePoint(dfmt.value)]
  /\ UNCHANGED <<CONFIG, uiVars, busy, log, cacheVars, world, remoteVars, calls, clock,
                 readFaults, sub, fsel, pfmt, alias, nfmt, sessionVars>>

NextDate == DateFormat

SpecDate == InitDate /\ [][NextDate]_vars

(***************************************************************************)
(* Properties of the date conversion.                                      *)
(***************************************************************************)
digitsAt(s, from, to) == toNumber(SubSeq(s, from, to))
\* the wall-clock reading an entered value YYYY-MM-DDTHH:MM names
EnteredParts(v) ==
  [year |-> digitsAt(v, 1, 4), month |-> digitsAt(v, 6, 7), day |-> digitsAt(v, 9, 10),
   hour |-> digitsAt(v, 12, 13), minute |-> digitsAt(v, 15, 16)]
NaiveInstant(v) ==
  LET p == EnteredParts(v) IN dateUTC(p.year, p.month, p.day, p.hour, p.minute)
\* the instant a written value YYYY-MM-DDTHH:MM:SS+HH:MM names
WrittenInstant(o) ==
  LET offset == (digitsAt(o, 21, 22) * 60) + digitsAt(o, 24, 25)
  IN NaiveInstant(o) - (IF o[20] = "-" THEN 0 - offset ELSE offset)
\* the reading exists in the zone: some instant shows it there
ExistsInZone(v) ==
  \E t \in {NaiveInstant(v) - (12 * 60), NaiveInstant(v) - (13 * 60)} :
    zonedParts(t) = EnteredParts(v)

\* C25: for every wall-clock date-time that exists in Pacific/Auckland, the
\* instant written to the record, shown in Pacific/Auckland, is the entered
\* date and time.
C25_WallClockPreserved ==
  (dfmt.pc = "returned" /\ ExistsInZone(dfmt.value))
    => zonedParts(WrittenInstant(dfmt.out)) = EnteredParts(dfmt.value)
\* the same, for the readings that no change of offset follows within
\* thirteen hours
WallClockPreservedAwayFromChange ==
  (/\ dfmt.pc = "returned" /\ ExistsInZone(dfmt.value)
   /\ \A back \in {12 * 60, 13 * 60} :
        zoneOffset(NaiveInstant(dfmt.value) - back) = zoneOffset(NaiveInstant(dfmt.value)))
    => zonedParts(WrittenInstant(dfmt.out)) = EnteredParts(dfmt.value)
\* the evening before the clocks go forward is written an hour early
EveningBeforeChangeShifted ==
  /\ dfmt.pc = "returned"
  /\ dfmt.value = <<"2","0","2","5","-","0","9","-","2","7","T","2","0",":","0","0">>
  /\ dfmt.out = <<"2","0","2","5","-","0","9","-","2","7","T","1","9",":","0","0",":","0","0","+","1","2",":","0","0">>

(***************************************************************************)
(* The reachability probes.                                                *)
(***************************************************************************)
\* the outcome of each probe as submit sees it: probeSharePointHost reports
\* a failure without a request when the hostname is empty
GraphProbeOk == world.graphReachable
HostProbeOk == toStr(CONFIG.spSiteHostname) # <<>> /\ world.spReachable
ProbeLines ==
  (IF GraphProbeOk THEN {} ELSE {Line("[Probe] Graph unreachable", 0)})
  \cup (IF HostProbeOk THEN {} ELSE {Line("[Probe] SharePoint host unreachable", 0)})

\* C26: whatever the two reachability probes report, the step that awaits
\* them hands over to the resolution step with the submission still busy and
\* nothing recorded as its error, and the log then holds one line for each
\* probe that failed and none for a probe that succeeded.
C26_ProbesNeverAbort ==
  [][sub.pc = "probe" =>
       /\ sub'.pc = "site"
       /\ sub'.error = "none"
       /\ busy'
       /\ {l \in Range(log') : l \notin Range(log)}
            = ProbeLines \cup {Line("Resolving site, list, library & columns", 0)}]_vars

\* both probes failed, and the submission went on to resolve the site
C26_Witness ==
  /\ \E i \in CallsOfKind("probeGraph") : ~calls[i].ok
  /\ \E i \in CallsOfKind("probeSharePoint") : ~calls[i].ok
  /\ Line("[Probe] Graph unreachable", 0) \in Range(log)
  /\ Line("[Probe] SharePoint host unreachable", 0) \in Range(log)
  /\ sub.pc = "list" /\ sub.siteId # Null

(***************************************************************************)
(* The configuration's shape.                                              *)
(***************************************************************************)
\* the guards of submit that precede validateConfig
SubmitAllowed == sub.pc = "idle" /\ account # "none" /\ files # <<>> /\ msalReady
\* the issues the claim lists (validateConfig also reports an empty redirectUri)
ShapeIssues ==
  {"spSiteHostname", "spSitePath", "libraryFolderPath", "graphBaseUrl", "graphVersion"}

\* C27: whatever issues validateConfig reports, a submission that passes the
\* other guards of submit can start (the issues are put to the user, who may
\* go on), and a submission that started with issues has run the probes by
\* the time it is past the probing step and records no error before it has
\* asked the remote for the site.
C27_UnusualConfigStillSubmits ==
  /\ (SubmitAllowed /\ validateConfig(CONFIG) # {})
       => ENABLED (SubmitStart /\ sub'.pc = "probe")
  /\ (validateConfig(CONFIG) # {} /\ sub.pc \notin {"idle", "probe"})
       => /\ NumCalls("probeGraph") = 1
          /\ Line("Resolving site, list, library & columns", 0) \in Range(log)
          /\ sub.pc = "failed"
               => NumCalls("siteDirect") + NumCalls("siteSearch") >= 1

\* a submission under a configuration with every listed issue has resolved
\* the site
C27_Witness ==
  /\ ShapeIssues \subseteq validateConfig(CONFIG)
  /\ NumCalls("probeGraph") = 1
  /\ sub.pc = "list" /\ sub.siteId # Null

(***************************************************************************)
(* The priming specification: a session that is never signed out.  Every   *)
(* remote call a pass awaits returns, so every step of a pass is weakly    *)
(* fair; the sign-in is the user's and is not.                             *)
(***************************************************************************)
\* configurations whose site, list and drive settings are names or
\* identifiers, on remotes where each call of a pass finds something,
\* nothing, or fails, and whose list has no column or one text column
PrimeConfigs ==
  { BaseConfig,
    [BaseConfig EXCEPT !.spSiteHostname = <<>>],
    [BaseConfig EXCEPT !.spListIdOrName = GuidPlain],
    [BaseConfig EXCEPT !.spLibraryDriveIdOrName = GuidBraced] }
PlainColumn == Column(<<"T">>, <<"T">>, "text", FALSE, FALSE)
PrimeWorlds ==
  {[w EXCEPT !.columns = cols] :
     w \in FaultWorlds \cup {[BaseWorld EXCEPT !.directSiteId = Null]},
     cols \in {<<>>, <<PlainColumn>>}}
PrimeScenarios ==
  {Scenario(cfg, w, <<>>, EmptyResolved, {}) : cfg \in PrimeConfigs, w \in PrimeWorlds}
InitPrime == \E sc \in PrimeScenarios, a \in {"none", "user"} : Booted(sc, a)

NextPrime ==
  \/ SignIn
  \/ PrimeSite
  \/ PrimeSiteSearch
  \/ PrimeList
  \/ PrimeDrive
  \/ PrimeColumns

SpecPrime ==
  /\ InitPrime
  /\ [][NextPrime]_vars
  /\ WF_vars(PrimeSite)
  /\ WF_vars(PrimeSiteSearch)
  /\ WF_vars(PrimeList)
  /\ WF_vars(PrimeDrive)
  /\ WF_vars(PrimeColumns)

\* an account is signed in on the mounted page
SignedIn == account # "none" /\ msalReady /\ mounted
\* getSiteId's direct lookup throws: a setting is missing, the remote knows
\* no such site, or the transport fails
DirectLookupThrows ==
  \/ toStr(CONFIG.spSiteHostname) = <<>> \/ toStr(CONFIG.spSitePath) = <<>>
  \/ world.directSiteId = Null
  \/ Faulted("siteDirect")
\* a step starts a pass
PassStarts == Len(prime') > Len(prime)

NoPassWhilePrimed == [][choicesPrimed' => ~PassStarts]_vars

\* where the direct lookup of the site returns it, the flag is eventually set
PrimedWhenDirectLookupReturns == (SignedIn /\ ~DirectLookupThrows) ~> choicesPrimed

\* where the direct lookup throws, the lines getSiteId logs render the
\* component, and the render cancels the pass that logged them: every pass
\* past the lookup is cancelled, and the flag is never set
FallbackPassCancelsItself ==
  (DirectLookupThrows /\ mounted)
    => /\ \A i \in DOMAIN prime : prime[i].pc # "site" => prime[i].cancelled
       /\ ~choicesPrimed

\* the pass of a signed-in session went through the search for the site and
\* ended with its result discarded
FallbackPassDiscarded ==
  /\ SignedIn /\ ~choicesPrimed
  /\ \E i \in DOMAIN prime :
       /\ prime[i].pc = "discarded"
       /\ \E k \in DOMAIN prime[i].calls : prime[i].calls[k].kind = "siteSearch"

(***************************************************************************)
(* The sign-out specification: sign-ins and sign-outs beside a submission  *)
(* in its resolution steps and the priming passes.  The sign-out button    *)
(* is enabled while a submission is busy.                                  *)
(***************************************************************************)
SignOutScenarios ==
  {Scenario(BaseConfig, w, <<File(1, 0)>>, EmptyResolved, {}) :
     w \in {BaseWorld, [BaseWorld EXCEPT !.directSiteId = Null]}}
InitSignOut == \E sc \in SignOutScenarios, a \in {"none", "user"} : Booted(sc, a)

NextSignOut ==
  \/ SignIn
  \/ SignOut
  \/ PrimeSite
  \/ PrimeSiteSearch
  \/ PrimeList
  \/ PrimeDrive
  \/ PrimeColumns
  \/ SubmitStart
  \/ Probes
  \/ SiteDirect
  \/ SiteSearch
  \/ ResolveList
  \/ ResolveDrive
  \/ Columns

SpecSignOut == InitSignOut /\ [][NextSignOut]_vars

\* C29: whenever no account is signed in, the three cached identifiers are
\* null, a submission that was resolving when the user signed out included.
C29_NoAccountNoCache == account = "none" => resolved = EmptyResolved

\* while no submission has been started, the cache of a signed-out page is
\* empty: a sign-out cancels the passes in flight
NoAccountNoCacheWithoutSubmit ==
  (account = "none" /\ sub.pc = "idle") => resolved = EmptyResolved

\* a submission resolved its columns after the sign-out and stored the
\* identifiers
SubmitWroteAfterSignOut ==
  /\ account = "none" /\ mounted
  /\ sub.pc = "file"
  /\ Complete(resolved)
  /\ resolved = [siteId |-> sub.siteId, listId |-> sub.listId, driveId |-> sub.driveId]

(***************************************************************************)
(* The cached site identifier.                                             *)
(***************************************************************************)
\* a step replaces the cached site identifier by another identifier
SiteReplaced ==
  resolved.siteId # Null /\ resolved'.siteId # Null /\ resolved'.siteId # resolved.siteId
\* no submission has gone through getSiteId's search by the end of the step
NoSearchBySubmit == \A i \in DOMAIN calls' : calls'[i].kind # "siteSearch"

\* C30: within one signed-in session, once the cache holds a site identifier
\* no step of a priming pass or of a submission stores a different one.
C30_CachedSiteNeverReplaced == [][account' = account => ~SiteReplaced]_vars

\* while no submission has resolved the site through the search, no step
\* replaces the cached site identifier
SiteKeptWhenResolvedDirectly == [][NoSearchBySubmit => ~SiteReplaced]_vars

\* no priming pass replaces the cached site identifier
SiteKeptByPasses ==
  [][(\E i \in DOMAIN prime : prime[i].pc \notin PassEnds /\ prime'[i].pc \in PassEnds)
       => ~SiteReplaced]_vars

\* a pass stored the configured site, and the submission that had started
\* on the empty cache stored the site its search listed first
SearchHitReplacedSite ==
  /\ world.candidates = <<SiteNearby, SiteConfigured>>
  /\ \E i \in DOMAIN prime : prime[i].pc = "written" /\ prime[i].siteId = BaseWorld.directSiteId
  /\ sub.resolved0 = EmptyResolved
  /\ resolved.siteId = SiteNearby.id

(***************************************************************************)
(* The folder a file is written under.                                     *)
(***************************************************************************)
\* the part of a path before its last separator, "" when it has none
dirOf(path) ==
  IF \E i \in DOMAIN path : path[i] = "/"
    THEN SubSeq(path, 1, (CHOOSE i \in DOMAIN path :
                            path[i] = "/" /\ \A j \in DOMAIN path : path[j] = "/" => j <= i) - 1)
    ELSE <<>>
\* the folders ensureFolder read or created for file f
EnsuredFor(f) ==
  {calls[i].path : i \in {k \in DOMAIN calls :
                            calls[k].kind = "folderRead" /\ calls[k].ok /\ calls[k].file = f}}
  \cup {createdPath(calls[i]) : i \in {k \in DOMAIN calls :
                            calls[k].kind = "folderCreate" /\ calls[k].ok /\ calls[k].file = f}}
\* a base folder path without doubled separators and without blanks around
\* a segment
PlainBase(p) ==
  LET clean == trimSlashes(p)
      segs == split(clean, "/")
  IN clean = <<>> \/ \A i \in DOMAIN segs : segs[i] # <<>> /\ trim(segs[i]) = segs[i]

\* C31: the folder part of the path a file is written to is a folder that
\* the ensureFolder call of the same uploadOne read or created, and it is
\* the last one: the accumulated path of the walk.
C31_FileWrittenUnderEnsuredFolder ==
  /\ \A i \in WritesIssued : dirOf(calls[i].path) \in EnsuredFor(calls[i].file)
  /\ sub.pc = "transfer" => dirOf(sub.target) = sub.parentPath

\* for a base folder path of plain shape the file goes under the ensured folder
FileUnderEnsuredFolderForPlainBase ==
  PlainBase(CONFIG.libraryFolderPath) => C31_FileWrittenUnderEnsuredFolder

\* a file was written under a folder path that the walk did not provision
WrittenOutsideEnsuredFolder ==
  \E i \in WritesIssued :
    /\ calls[i].ok
    /\ dirOf(calls[i].path) \notin EnsuredFor(calls[i].file)
    /\ dirOf(calls[i].path) \notin rfolders

(***************************************************************************)
(* The item a chunked upload returns.                                      *)
(***************************************************************************)
\* the final read by path of a chunked upload returns its item to submit
FinalGetReturns ==
  sub.pc = "finalGet" /\ Len(sub'.uploadedItems) = Len(sub.uploadedItems) + 1
\* the item the upload session completed: the newest item of the drive, as
\* uploads run one after the other
SessionItem == ritems[Len(ritems)]
\* the target names of the selected files differ pairwise
TargetNamesDiffer ==
  \A i, j \in DOMAIN sub.files0 : i # j => NameAt(i) # NameAt(j)

\* C32: the item uploadOne returns for a chunked upload is the item the
\* upload session completed, whatever the drive held before.
C32_ChunkedUploadReturnsItsItem ==
  [][FinalGetReturns =>
       sub'.uploadedItems[Len(sub'.uploadedItems)].id = SessionItem.id]_vars

\* when no two selected files share a target name, a chunked upload returns
\* the item its session completed
ChunkedUploadReturnsItsItemForDistinctNames ==
  [][(FinalGetReturns /\ TargetNamesDiffer) =>
       sub'.uploadedItems[Len(sub'.uploadedItems)].id = SessionItem.id]_vars

\* the session of the second file completed under a changed name, and the
\* read by path returned the item of the first file
ChunkedUploadReturnedOlderItem ==
  /\ Len(sub.uploadedItems) = 2
  /\ sub.uploadedItems[1].id = sub.uploadedItems[2].id
  /\ \E i \in DOMAIN calls : calls[i].kind = "finalGet" /\ calls[i].ok /\ calls[i].file = 2
  /\ Len(ritems) = 2 /\ ritems[2].path # sub.target /\ ritems[2].size = sub.files0[2].size

(***************************************************************************)
(* The order of ensureFolder's calls.                                      *)
(***************************************************************************)
\* a path of one segment
TopLevel(path) == \A k \in DOMAIN path : path[k] # "/"
\* by the i-th call, ensureFolder has read or created the folder for file f
ProvisionedBefore(path, f, i) ==
  \E j \in 1..(i - 1) :
    /\ calls[j].file = f /\ calls[j].ok
    /\ \/ calls[j].kind = "folderRead" /\ calls[j].path = path
       \/ calls[j].kind = "folderCreate" /\ createdPath(calls[j]) = path

\* C33: every create-folder call directly follows the failed read of the path
\* it creates; the parent of that path was read or created before by the
\* same walk; the call goes to the children of the parent path, and to the
\* root's children for a path of one segment; and the reads of a walk go
\* down the path, each one segment below the read before.
C33_EnsureFolderWalkOrder ==
  /\ \A i \in CallsOfKind("folderCreate") :
       /\ i > 1
       /\ calls[i - 1].kind = "folderRead" /\ ~calls[i - 1].ok
       /\ calls[i - 1].file = calls[i].file
       /\ LET path == calls[i - 1].path
          IN /\ calls[i].name # <<>>
             /\ IF TopLevel(path)
                  THEN /\ calls[i].endpoint = "rootChildren"
                       /\ calls[i].path = <<>>
                       /\ calls[i].name = path
                  ELSE /\ calls[i].endpoint = "pathChildren"
                       /\ calls[i].path = dirOf(path)
                       /\ childPath(calls[i].path, calls[i].name) = path
                       /\ ProvisionedBefore(dirOf(path), calls[i].file, i)
  /\ \A f \in DOMAIN sub.files0 :
       LET reads == CallsFor("folderRead", f)
       IN \A k \in DOMAIN reads :
            IF k = 1 THEN TopLevel(reads[k].path)
            ELSE dirOf(reads[k].path) = reads[k - 1].path

\* a walk created a top-level folder through the root's children, created a
\* folder below it, and created a folder below a folder it had read
C33_Witness ==
  /\ sub.pc = "transfer"
  /\ \E i \in CallsOfKind("folderCreate") :
       calls[i].ok /\ calls[i].endpoint = "rootChildren"
  /\ \E i \in CallsOfKind("folderCreate") :
       /\ calls[i].ok /\ calls[i].endpoint = "pathChildren"
       /\ \E j \in CallsOfKind("folderCreate") : j < i /\ createdPath(calls[j]) = calls[i].path
  /\ \E i \in CallsOfKind("folderCreate") :
       /\ calls[i].ok /\ calls[i].endpoint = "pathChildren"
       /\ \E j \in CallsOfKind("folderRead") : j < i /\ calls[j].ok /\ calls[j].path = calls[i].path

(***************************************************************************)
(* The candidate chooseField settles on.                                   *)
(***************************************************************************)
\* the column metadata chooseField reads for an internal name
metaOf(metaByName, name) ==
  IF name \in DOMAIN metaByName THEN metaByName[name]
  ELSE [readOnly |-> FALSE, hidden |-> FALSE]
\* the k-th candidate is a key of the index whose column is not hidden and,
\* when a writable column is asked for, not read-only
Qualifies(k) ==
  LET key == toLowerCase(toStr(fsel.candidates[k]))
  IN /\ key \in DOMAIN fsel.byLower
     /\ ~metaOf(fsel.metaByName, fsel.byLower[key]).hidden
     /\ ~(fsel.requireWritable /\ metaOf(fsel.metaByName, fsel.byLower[key]).readOnly)
\* the k-th candidate is a key of the index
Present(k) == toLowerCase(toStr(fsel.candidates[k])) \in DOMAIN fsel.byLower

\* C34: chooseField returns the internal name mapped by the first candidate,
\* in the order given, that is a key of the index and maps to a column that
\* is not hidden and (when requireWritable is set) not read-only; candidates
\* before it that are present but rejected do not end the search; and it
\* returns none exactly when no candidate qualifies.
C34_EarliestQualifyingCandidateWins ==
  fsel.pc = "returned" =>
    IF \E k \in DOMAIN fsel.candidates : Qualifies(k)
      THEN LET first == CHOOSE k \in DOMAIN fsel.candidates :
                          Qualifies(k) /\ \A j \in 1..(k - 1) : ~Qualifies(j)
           IN fsel.out = fsel.byLower[toLowerCase(toStr(fsel.candidates[first]))]
      ELSE fsel.out = Null

\* the first candidate was present but hidden, the second was returned
C34_Witness ==
  /\ fsel.pc = "returned"
  /\ ~fsel.requireWritable
  /\ Len(fsel.candidates) = 2
  /\ Present(1) /\ ~Qualifies(1)
  /\ Qualifies(2)
  /\ fsel.out = fsel.byLower[toLowerCase(toStr(fsel.candidates[2]))]
  /\ fsel.out # fsel.byLower[toLowerCase(toStr(fsel.candidates[1]))]

(***************************************************************************)
(* The internal names one submission writes to.                            *)
(***************************************************************************)
\* the internal names submit assigns to, in the order of its assignments:
\* title always, village, notes and captured-on when resolved, photo last
WrittenNames(names) ==
  <<titleNameOf(names)>>
    \o (IF names.village # Null THEN <<names.village>> ELSE <<>>)
    \o (IF names.notes # Null THEN <<names.notes>> ELSE <<>>)
    \o (IF names.capturedOn # Null THEN <<names.capturedOn>> ELSE <<>>)
    \o <<names.photo>>

\* C35: in every submission that assembles its payload, the logical fields
\* written (title, village, notes, captured-on, photo) have pairwise
\* distinct internal names, and the payload holds one entry for each.
C35_WrittenFieldsDistinct ==
  sub.pc = "done" =>
    LET written == WrittenNames(sub.names)
    IN /\ \A i, j \in DOMAIN written : i # j => written[i] # written[j]
       /\ Cardinality(DOMAIN sub.fields) = Len(written)

\* the same, for listings in which no column shows under the name of
\* another logical field
WrittenFieldsDistinctUnlessRenamed ==
  (sub.pc = "done" /\ \A k \in DOMAIN world.columns : world.columns[k] # RenamedTitleColumn)
    => LET written == WrittenNames(sub.names)
       IN /\ \A i, j \in DOMAIN written : i # j => written[i] # written[j]
          /\ Cardinality(DOMAIN sub.fields) = Len(written)

\* a record was created whose title column holds the village entered
TitleOverwrittenByVillage ==
  /\ sub.pc = "done"
  /\ sub.form0.title # <<>> /\ sub.form0.title # sub.form0.village
  /\ sub.names.village = titleNameOf(sub.names)
  /\ rrecords # <<>>
  /\ rrecords[Len(rrecords)].fields[titleNameOf(sub.names)] = sub.form0.village

(***************************************************************************)
(* The keys the alias index holds for a listed column.                     *)
(***************************************************************************)
\* the three forms of a name: as it stands, with underscores as spaces, and
\* without non-alphanumerics; trimmed and lower-cased, the empty ones left out
ThreeForms(name) ==
  {keyOf(name), keyOf(underscoresToSpaces(name)), keyOf(stripNonAlnum(name))} \ {<<>>}
\* the columns listed with an internal name
Listed == {i \in DOMAIN alias.cols : toStr(alias.cols[i].name) # <<>>}
\* the key is in the index, mapped to the i-th column or to one listed before
HeldFor(k, i) ==
  /\ k \in DOMAIN alias.schema.byLower
  /\ \E e \in Listed : e <= i /\ alias.schema.byLower[k] = alias.cols[e].name

\* C36: after getColumns has gone through the listing, for every listed
\* column the index holds the three forms of the internal name and the three
\* forms of the display name, each mapped to that column or to a column
\* listed before it.
C36_IndexHoldsSixForms ==
  alias.pc = "built" =>
    \A i \in Listed :
      \A k \in ThreeForms(alias.cols[i].name) \cup ThreeForms(toStr(alias.cols[i].displayName)) :
        HeldFor(k, i)

\* the same for the keys getColumns registers (for the display name: as it
\* stands, without whitespace, without non-alphanumerics), the names every
\* object inherits left out
IndexHoldsKeysOffered ==
  alias.pc = "built" =>
    \A i \in Listed :
      \A k \in KeysOffered(alias.cols[i]) \ ObjectPrototypeKeys : HeldFor(k, i)

\* a display name with an underscore whose form with a space is no key of the
\* index, while its other two forms are
SpacedDisplayNameMissing ==
  /\ alias.pc = "built"
  /\ \E i \in Listed :
       LET d == toStr(alias.cols[i].displayName)
       IN /\ \E p \in DOMAIN d : d[p] = "_"
          /\ keyOf(underscoresToSpaces(d)) \notin DOMAIN alias.schema.byLower
          /\ HeldFor(keyOf(d), i)
          /\ HeldFor(keyOf(stripNonAlnum(d)), i)

(***************************************************************************)
(* The file-name specification: buildTargetFileName applied to tags and    *)
(* file names around the length at which a segment is cut.                 *)
(***************************************************************************)
\* n times the letter a
Letters(n) == [i \in 1..n |-> "a"]
\* runs of letters up to and beyond the cut, followed by letters, blanks,
\* hyphens and other punctuation
NameHeads == {Letters(n) : n \in {0, 1, SegmentCap - 2, SegmentCap - 1, SegmentCap, SegmentCap + 1}}
NameTails == { <<>>, <<"-","b">>, <<" ","b","9">>, <<"-","-">>, <<"_","-","_","B">>, <<" ","-"," ">> }
NameTexts == {h \o t : h \in NameHeads, t \in NameTails} \cup { <<" ","-","x",".","y","-"," ">> }
NameExtensions == { <<>>, <<".","J","P","G">> }

InitName ==
  /\ InitFrom(Scenario(BaseConfig, BaseWorld, BaseFiles, EmptyResolved, {}))
  /\ fsel = FselOff
  /\ pfmt = PfmtOff
  /\ alias = AliasOff
  /\ dfmt = DfmtOff
  /\ nfmt \in [pc : {"ready"}, tag : NameTexts,
               name : {b \o e : b \in NameTexts, e \in NameExtensions},
               segments : {<<>>}, out : {<<>>}]

\* the part of a file name before its last dot
baseOf(name) == IF lastDot(name) > 0 THEN SubSeq(name, 1, lastDot(name) - 1) ELSE name

\* one call of buildTargetFileName(file, villageValue, stamp); segments are
\* the two values its sanitize returned, for the tag and for the base name
NameBuild ==
  /\ nfmt.pc = "ready"
  /\ nfmt' = [nfmt EXCEPT
                !.pc = "returned",
                !.segments = <<sanitize(nfmt.tag), sanitize(baseOf(nfmt.name))>>,
                !.out = buildTargetFileName([name |-> nfmt.name, size |-> 0, lastModified |-> 1],
                                            nfmt.tag, Stamps[1])]
  /\ UNCHANGED <<CONFIG, uiVars, busy, log, cacheVars, world, remoteVars, calls, clock,
                 readFaults, sub, fsel, pfmt, alias, dfmt, sessionVars>>

NextName == NameBuild

SpecName == InitName /\ [][NextName]_vars

\* a segment of letters, digits and single hyphens
SingleHyphens(seg) ==
  /\ \A i \in DOMAIN seg : IsAlnum(seg[i]) \/ seg[i] = "-"
  /\ \A i \in 1..(Len(seg) - 1) : ~(seg[i] = "-" /\ seg[i + 1] = "-")

\* C37: for every tag and file name, each sanitized segment of the remote
\* file name is at most 60 characters long, holds only letters, digits and
\* single hyphens, and neither starts nor ends with a hyphen.
C37_SegmentsWellFormed ==
  nfmt.pc = "returned" =>
    \A k \in DOMAIN nfmt.segments :
      LET seg == nfmt.segments[k]
      IN /\ Len(seg) <= SegmentCap
         /\ SingleHyphens(seg)
         /\ seg # <<>> => (seg[1] # "-" /\ seg[Len(seg)] # "-")

\* the same, the last character of a segment that was cut left aside
SegmentsWellFormedUnlessCut ==
  nfmt.pc = "returned" =>
    \A k \in DOMAIN nfmt.segments :
      LET seg == nfmt.segments[k]
      IN /\ Len(seg) <= SegmentCap
         /\ SingleHyphens(seg)
         /\ seg # <<>> => seg[1] # "-"
         /\ (seg # <<>> /\ Len(seg) < SegmentCap) => seg[Len(seg)] # "-"

\* the tag was cut behind a hyphen, and the file name holds the hyphen before
\* the separator of its two segments
SegmentCutAfterHyphen ==
  /\ nfmt.pc = "returned"
  /\ Len(nfmt.segments[1]) = SegmentCap
  /\ nfmt.segments[1][SegmentCap] = "-"
  /\ \E i \in 1..(Len(nfmt.out) - 1) : nfmt.out[i] = "-" /\ nfmt.out[i + 1] = "_"

(***************************************************************************)
(* The termination specification: one submission whose every remote call   *)
(* returns, so that the continuation of each awaited call is run.  The      *)
(* start of a submission is the user's and is not scheduled.                *)
(***************************************************************************)
\* every selection of files, over a drive with and without the dated
\* folders and a list with and without a photo column, with reads that may
\* fail transiently, and remotes where the resolution finds no list or drive
LiveScenarios ==
  {Scenario(BaseConfig, [BaseWorld EXCEPT !.columns = cols, !.flaky = flaky], fs,
            EmptyResolved, folders) :
     cols \in {<<PhotoColumn>>, <<>>}, flaky \in BOOLEAN, fs \in FileLists,
     folders \in {{}, provisioned(BaseConfig.libraryFolderPath)}}
  \cup {Scenario(BaseConfig, w, <<File(1, 0)>>, EmptyResolved, {}) :
          w \in {[BaseWorld EXCEPT !.directSiteId = Null, !.columns = <<PhotoColumn>>],
                 [BaseWorld EXCEPT !.directSiteId = Null, !.candidates = <<>>],
                 [BaseWorld EXCEPT !.lists = <<>>],
                 [BaseWorld EXCEPT !.drives = <<>>]}}

InitLive ==
  \E sc \in LiveScenarios :
    InitFrom(sc) /\ fsel = FselOff /\ pfmt = PfmtOff /\ alias = AliasOff /\ dfmt = DfmtOff
                 /\ nfmt = NfmtOff

\* the steps of submit after its start: each is the continuation of an
\* awaited call
SubmitSteps ==
  \/ Probes
  \/ SiteDirect
  \/ SiteSearch
  \/ ResolveList
  \/ ResolveDrive
  \/ Columns
  \/ UploadBegin
  \/ FolderRead
  \/ FolderCreate
  \/ PutContent
  \/ CreateUploadSession
  \/ PutChunk
  \/ FinalGet
  \/ CreateListItem

SpecLive == InitLive /\ [][Next]_vars /\ WF_vars(SubmitSteps)

\* the submission has ended with its record created
EndedCreated ==
  /\ sub.pc = "done"
  /\ Len(rrecords) = 1
  /\ log[Len(log)] = Line("All done", 0)
  /\ \A i \in DOMAIN log : log[i] # Line("Error", 0)
\* the submission has ended with its first, and only, error logged last
EndedWithError ==
  /\ sub.pc = "failed"
  /\ rrecords = <<>>
  /\ log[Len(log)] = Line("Error", 0)
  /\ \A i \in 1..(Len(log) - 1) : log[i] # Line("Error", 0)

\* C38: when every remote call returns, a submission that has started
\* eventually ends, with the record created or with its first error logged,
\* and with the busy flag false; the busy flag is set for exactly as long as
\* the submission runs; and each accepted chunk moves the cursor of the
\* chunk loop forward, by no more than to the file's size.
C38_SubmissionTerminates ==
  /\ (sub.pc # "idle") ~> (~busy /\ (EndedCreated \/ EndedWithError))
  /\ [](busy <=> sub.pc \notin {"idle", "done", "failed"})
  /\ [][(sub.pc = "chunk" /\ sub'.pc # "failed")
          => /\ sub'.start > sub.start
             /\ sub'.start <= sub.files0[sub.fileIdx].size
             /\ (sub'.pc = "finalGet") = (sub'.start = sub.files0[sub.fileIdx].size)]_vars

\* a submission with a file sent in three chunks ended with its record, and
\* the busy flag is false
C38_Witness ==
  /\ EndedCreated /\ ~busy
  /\ \E f \in DOMAIN sub.files0 :
       /\ sub.files0[f].size = 2 * chunkSize + 1
       /\ Len(CallsFor("chunk", f)) = 3

=============================================================================
